---------------------------- MODULE Spec2Model ----------------------------
(***************************************************************************)
(* Coordinate parsing engine of Excel_to_KML (src/src/xlsx_to_kml).        *)
(*                                                                         *)
(* Text.  A coordinate string is a sequence of symbols.  A symbol is a     *)
(* single character, [t |-> "ch", c |-> <name of the character>], or an    *)
(* atom that stands for a run of characters one of the regular             *)
(* expressions of parsing.py matches as a whole:                           *)
(*   [t |-> "dms", d, m, s, deg]  an angle  d<deg>m's"  (DMS_COORD_PATTERN)*)
(*        s in thousandths of a second, deg "DEG" for U+00B0 and "ORD" for *)
(*        U+00BA                                                           *)
(*   [t |-> "msk", i, x, y, gap]  a triple  i: x<gap>m., y<gap>m.          *)
(*        (MSK_COORD_PATTERN), x and y the literals, gap whether a space   *)
(*        stands before the unit                                           *)
(*   [t |-> "idx", n]             a point index  n:  or  n.                *)
(*   [t |-> "alt", n]             the label  tochka n  (ALT_POINT_PATTERN) *)
(*   [t |-> "name", w]            a system name, w its tokens              *)
(*   [t |-> "word", w]            any other word                           *)
(* A value that is no str is the sequence of one symbol                    *)
(*   [t |-> "obj", type, truthy]  an object of that type, with its bool()   *)
(* TLA+ strings are ASCII, so Cyrillic characters are named by their       *)
(* Unicode names: "YU" is U+042E, "SHA" U+0428, "ZE" U+0417, "DE" U+0414,  *)
(* lower case names are the lower case letters.                            *)
(*                                                                         *)
(* Numbers.  Angles are integers in thousandths of an arc second (mas),    *)
(* 3 600 000 to the degree; the coordinates of a Point are integers in     *)
(* millionths of a degree, which is what round(v, 6) leaves.  Distances    *)
(* are integers in metres.                                                 *)
(***************************************************************************)
EXTENDS Integers, Sequences, FiniteSets, TLC

VARIABLES
    coord_str,      \* the text handed to the parser
    transformers,   \* the transformers argument: [given, map], given FALSE for None
    proj4_file,     \* data/proj4.json: the sequence of its names, or "missing"
    objects_info,   \* data/objects_info.json: sequence of [key, entries], or "missing"
    config,         \* Config: [anomaly_threshold_km]
    op,             \* the function called last ("none" before any call)
    outcome,        \* what that call gave: points or an exception
    calls,          \* the calls parse_coordinates made, in order
    det_coordinates,   \* the list handed to detect_coordinate_anomalies
    det_threshold_km,  \* its threshold_km argument
    det_result,        \* what it returned
    disk,              \* the registry files of the process: path -> file
    cache,             \* the lru_cache of get_transformers: set of [args, id, map]
    opens,             \* the paths get_transformers opened, in order
    history,           \* the calls the process made, in order
    threads,           \* each thread's position in its call of get_transformers
    sheet,             \* the data rows handed to create_kml_from_coordinates
    row_idx,           \* how many of them the loop has been through
    stats,             \* the ConversionResult being filled
    anomalies_list,    \* the entries collected for the anomaly report
    kml,               \* the geometry put into the KML document
    pc,                \* where create_kml_from_coordinates is
    raised,            \* the exception that left it, "" for none
    futures,           \* the files handed to the pool, and what became of them
    processing_stats,  \* the ProcessingStats of the session
    totals,            \* what get_total_stats returned, <<>> before the call
    quality            \* what calculate_quality_score returned, <<>> before

\* The variables of a call of the anomaly detector on its own.
detect_vars == <<det_coordinates, det_threshold_km, det_result>>

\* The variables of a process that calls get_transformers and
\* parse_coordinates again and again.
process_vars == <<disk, cache, opens, history>>

thread_vars == <<threads>>

\* The variables of a run of create_kml_from_coordinates.
pipeline_vars == <<sheet, row_idx, stats, anomalies_list, kml, pc, raised>>

\* The variables of a session of _run_parallel_conversion.
session_vars == <<futures, processing_stats, totals, quality>>

vars == <<coord_str, transformers, proj4_file, objects_info, config, op, outcome, calls,
          detect_vars, process_vars, thread_vars, pipeline_vars, session_vars>>

-----------------------------------------------------------------------------
(* Symbols *)

Ch(c) == [t |-> "ch", c |-> c]
Dms(d, m, s, deg) == [t |-> "dms", d |-> d, m |-> m, s |-> s, deg |-> deg]
Msk(i, x, y, gap) == [t |-> "msk", i |-> i, x |-> x, y |-> y, gap |-> gap]
Idx(n) == [t |-> "idx", n |-> n]
Alt(n) == [t |-> "alt", n |-> n]
Name(w) == [t |-> "name", w |-> w]
Word(w) == [t |-> "word", w |-> w]

Obj(type, truthy) == [t |-> "obj", type |-> type, truthy |-> truthy]

SP == Ch("SP")
SEMI == Ch("SEMI")
NL == Ch("NL")

\* The character class [A-Za-zА-Яа-яЁё] of _has_standalone_token,
\* over the characters of the model.
Letters == {"YU", "SHA", "ZE", "DE", "yu", "sha", "ze", "de", "S", "W", "s", "w", "x"}

\* re.IGNORECASE: the upper case form of a character.
Upper(c) ==
    CASE c = "yu" -> "YU" [] c = "sha" -> "SHA" [] c = "ze" -> "ZE" [] c = "de" -> "DE"
      [] c = "s" -> "S" [] c = "w" -> "W" [] OTHER -> c

\* Words of the model and what the predicates of parsing.py see in them:
\*   "Samara"   a place name, Cyrillic letters
\*   "GSK-2011" the datum label, contains 'gsk' once lowered
\*   "gsk"      the same in lower case
\*   "5 m."     a length, contains ' m.' and ends with 'm.'
\*   "X, m."    a column heading, contains ', m.' and ends with 'm.'
\*   "berega"   a Cyrillic word
FirstIsLetter(sym) ==
    CASE sym.t = "ch" -> sym.c \in Letters
      [] sym.t = "name" -> TRUE
      [] sym.t = "alt" -> TRUE
      [] sym.t = "word" -> sym.w # "5 m."
      [] OTHER -> FALSE

LastIsLetter(sym) ==
    CASE sym.t = "ch" -> sym.c \in Letters
      [] sym.t = "word" -> sym.w \in {"Samara", "gsk", "berega"}
      [] OTHER -> FALSE

IsSpace(sym) == sym \in {SP, NL}

-----------------------------------------------------------------------------
(* Outcomes: a returned list of points, or a raised exception.  The reason *)
(* of a ParseError is the sequence of its message fragments, outermost     *)
(* first: an f-string that embeds another exception's text has that text's *)
(* fragments after its own.                                                *)
(*   "OddDmsCount"       Nechetnoe kolichestvo naidennykh DMS koordinat    *)
(*   "DmsPairInternal"   Vnutrennyaya oshibka pri obrabotke pary DMS:      *)
(*   "DmsOutOfRange"     Koordinaty DMS vne dopustimogo diapazona WGS84    *)
(*   "MskTransformError" Oshibka transformatsii MSK koordinat:             *)
(*   "MskOutOfRange"     Koordinaty MSK vne dopustimogo diapazona WGS84    *)
(*   "Sk42OutOfRange"    Koordinaty posle preobrazovaniya SK-42->WGS84 ... *)
(*   "ProjLoadFailed"    Ne udalos zagruzit opisaniya proektsii dlya MSK.  *)
(*   "UnknownMskSystem"  ... ne naidena izvestnaya sistema koordinat MSK   *)
(*   "Anomalous"         Obnaruzheny anomalnye koordinaty, ...             *)

Returned(points) == [kind |-> "return", points |-> points, exc |-> "", reason |-> <<>>]
Raised(exc, reason) == [kind |-> "raise", points |-> <<>>, exc |-> exc, reason |-> reason]
ParseError(reason) == Raised("ParseError", reason)

Point(name, lon, lat) == [name |-> name, lon |-> lon, lat |-> lat]

\* ConversionResult(filename): the counters of a file, all at their defaults
\* (filename and processing_time are left out).
ConversionResult ==
    [total_rows |-> 0, successful_rows |-> 0, failed_rows |-> 0, anomaly_rows |-> 0,
     error_reasons |-> <<>>, anomaly_file_created |-> FALSE]

-----------------------------------------------------------------------------
(* str.split and str.strip *)

RECURSIVE Split(_, _)
Split(s, sep) ==
    IF \A i \in 1..Len(s) : s[i] # sep
    THEN <<s>>
    ELSE LET i == CHOOSE k \in 1..Len(s) : s[k] = sep /\ \A j \in 1..(k - 1) : s[j] # sep
         IN  <<SubSeq(s, 1, i - 1)>> \o Split(SubSeq(s, i + 1, Len(s)), sep)

Strip(s) ==
    LET keep == {i \in 1..Len(s) : ~IsSpace(s[i])}
    IN  IF keep = {} THEN <<>>
        ELSE SubSeq(s, CHOOSE i \in keep : \A j \in keep : i <= j,
                       CHOOSE i \in keep : \A j \in keep : j <= i)

-----------------------------------------------------------------------------
(* parsing.py: the DMS parser *)

\* '°' in str: U+00B0 only, not the U+00BA an angle may also carry.
looks_like_dms(s) ==
    \E i \in 1..Len(s) : s[i] = Ch("DEG") \/ (s[i].t = "dms" /\ s[i].deg = "DEG")

\* -90 <= lat <= 90 and -180 <= lon <= 180, in mas.
validate_wgs84_range(lat, lon) ==
    /\ -(90 * 3600000) <= lat /\ lat <= 90 * 3600000
    /\ -(180 * 3600000) <= lon /\ lon <= 180 * 3600000

\* round(v, 6) of an angle of v mas, in millionths of a degree: the nearest
\* integer to 5v/18.  A tie would need 10v = 18k + 9, even = odd, so there is
\* none and the float's rounding error cannot reach one.
Round6(v) == 5 * (v \div 18) + ((5 * (v % 18) + 9) \div 18)

\* A findall that lets go of a part's last match when the part holds an odd
\* number of them.
DmsCoordFindall_paired(part) ==
    LET hits == SelectSeq(part, LAMBDA sym : sym.t = "dms")
    IN  [k \in 1..(2 * (Len(hits) \div 2)) |-> <<hits[k].d, hits[k].m, hits[k].s>>]

\* DMS_COORD_PATTERN.findall(part): the (deg, min, sec) groups, in order.
DmsCoordFindall(part) ==
    LET hits == SelectSeq(part, LAMBDA sym : sym.t = "dms")
    IN  [k \in 1..Len(hits) |-> <<hits[k].d, hits[k].m, hits[k].s>>]

\* DMS_POINT_PATTERN.findall(part): (\d+)[:.]\s*(?=\d+[°º]), an index
\* followed, after white space only, by an angle.
RECURSIVE NextNonSpace(_, _)
NextNonSpace(part, i) ==
    IF i > Len(part) THEN 0
    ELSE IF IsSpace(part[i]) THEN NextNonSpace(part, i + 1) ELSE i

RECURSIVE DmsPointFindallFrom(_, _)
DmsPointFindallFrom(part, i) ==
    IF i > Len(part) THEN <<>>
    ELSE LET n == NextNonSpace(part, i + 1)
             hit == part[i].t = "idx" /\ n # 0 /\ part[n].t = "dms"
         IN  (IF hit THEN <<part[i].n>> ELSE <<>>) \o DmsPointFindallFrom(part, i + 1)

DmsPointFindall(part) == DmsPointFindallFrom(part, 1)

\* ALT_POINT_PATTERN.search(part_text): the first label, 0 for no match.
AltPointSearch(part) ==
    LET hits == SelectSeq(part, LAMBDA sym : sym.t = "alt")
    IN  IF hits = <<>> THEN 0 ELSE hits[1].n

Parts(str) ==
    LET raw == Split(str, SEMI)
        stripped == [k \in 1..Len(raw) |-> Strip(raw[k])]
    IN  SelectSeq(stripped, LAMBDA p : p # <<>>)

RECURSIVE AllDmsCoordsFrom(_, _)
AllDmsCoordsFrom(parts, idx) ==
    IF idx >= Len(parts) THEN <<>>
    ELSE LET part == parts[idx + 1]
             coords_match == DmsCoordFindall(part)
         IN  [k \in 1..Len(coords_match) |->
                 [coord |-> coords_match[k], part |-> part, part_index |-> idx]]
             \o AllDmsCoordsFrom(parts, idx + 1)

\* Returns (all_dms_coords, point_numbers_by_part); part indices count from 0.
extract_dms_matches(str) ==
    LET parts == Parts(str)
        numbered == {idx \in 0..(Len(parts) - 1) : DmsPointFindall(parts[idx + 1]) # <<>>}
    IN  [all_dms_coords |-> AllDmsCoordsFrom(parts, 0),
         point_numbers_by_part |-> [idx \in numbered |-> DmsPointFindall(parts[idx + 1])]]

\* A conversion that wraps a minute or second field of 60 or more.
dms_tuple_to_decimal_wrapping(d) == d[1] * 3600000 + (d[2] % 60) * 60000 + (d[3] % 60000)

\* sum(float(x) / 60**k for k, x in enumerate(d)), in mas.
dms_tuple_to_decimal(d) == d[1] * 3600000 + d[2] * 60000 + d[3]

\* The name is always the text 'tochka ' followed by a number: the model
\* keeps the number.
derive_point_name(part_idx, pair_idx, mapping, part_text) ==
    LET part_point_numbers == IF part_idx \in DOMAIN mapping THEN mapping[part_idx] ELSE <<>>
    IN  IF pair_idx < Len(part_point_numbers)
        THEN part_point_numbers[pair_idx + 1]
        ELSE IF AltPointSearch(part_text) # 0
             THEN AltPointSearch(part_text)
             ELSE pair_idx + 1

\* A search for the token anywhere, inside longer words too.
has_standalone_token_anywhere(text, token) ==
    \E i \in 1..(Len(text) - Len(token) + 1) :
        \A k \in 1..Len(token) :
            text[i + k - 1].t = "ch" /\ Upper(text[i + k - 1].c) = token[k]

\* re.search of (?<![letter])token(?![letter]) with re.IGNORECASE; token is
\* the sequence of its characters in upper case.
has_standalone_token(text, token) ==
    \E i \in 1..(Len(text) - Len(token) + 1) :
        /\ \A k \in 1..Len(token) :
              text[i + k - 1].t = "ch" /\ Upper(text[i + k - 1].c) = token[k]
        /\ i = 1 \/ ~LastIsLetter(text[i - 1])
        /\ i + Len(token) > Len(text) \/ ~FirstIsLetter(text[i + Len(token)])

RECURSIVE DmsPairLoop_dropping(_, _, _, _)
\* A loop that leaves a pair outside the range out and goes on.
DmsPairLoop_dropping(all_dms_coords, point_numbers_by_part, j, result) ==
    IF j >= Len(all_dms_coords) THEN Returned(result)
    ELSE
      LET lat == dms_tuple_to_decimal(all_dms_coords[j + 1].coord)
          lon == dms_tuple_to_decimal(all_dms_coords[j + 2].coord)
      IN  DmsPairLoop_dropping(all_dms_coords, point_numbers_by_part, j + 2,
              IF validate_wgs84_range(lat, lon) /\ (lat # 0 \/ lon # 0)
              THEN Append(result, Point(j \div 2 + 1, Round6(lon), Round6(lat)))
              ELSE result)

RECURSIVE DmsPairLoop(_, _, _, _)
DmsPairLoop(all_dms_coords, point_numbers_by_part, j, result) ==
    IF j >= Len(all_dms_coords) THEN Returned(result)
    ELSE
      LET lat_info == all_dms_coords[j + 1]
          lon_info == all_dms_coords[j + 2]
          lat0 == dms_tuple_to_decimal(lat_info.coord)
          lon0 == dms_tuple_to_decimal(lon_info.coord)
          combined_text == lat_info.part \o <<SP>> \o lon_info.part
          lat == IF \/ has_standalone_token(combined_text, <<"YU", "SHA">>)
                    \/ has_standalone_token(combined_text, <<"S">>)
                 THEN -lat0 ELSE lat0
          lon == IF \/ has_standalone_token(combined_text, <<"ZE", "DE">>)
                    \/ has_standalone_token(combined_text, <<"W">>)
                 THEN -lon0 ELSE lon0
          point_name == derive_point_name(lat_info.part_index, j \div 2,
                                          point_numbers_by_part, lat_info.part)
      IN  IF ~validate_wgs84_range(lat, lon)
          THEN \* raised at line 142, caught and wrapped at lines 152-154
               ParseError(<<"DmsPairInternal", "DmsOutOfRange">>)
          ELSE DmsPairLoop(all_dms_coords, point_numbers_by_part, j + 2,
                   IF lat # 0 \/ lon # 0
                   THEN Append(result, Point(point_name, Round6(lon), Round6(lat)))
                   ELSE result)

parse_dms_coordinates(str) ==
    LET ex == extract_dms_matches(str)
    IN  IF ex.all_dms_coords = <<>> THEN Returned(<<>>)
        ELSE IF Len(ex.all_dms_coords) % 2 # 0 THEN ParseError(<<"OddDmsCount">>)
        ELSE DmsPairLoop(ex.all_dms_coords, ex.point_numbers_by_part, 0, <<>>)

-----------------------------------------------------------------------------
(* anomalies.py *)

\* haversine_distance for the coordinates the model's transforms and angles
\* produce, as <<lat1, lon1, lat2, lon2, metres>> with the coordinates in
\* millionths of a degree: the values of the function of anomalies.py:7-15,
\* rounded to the metre.
HaversineTable ==
    {   <<55755833, 55755833, 55755833, 131885278, 4514657>>,
        <<55756164, 55754362, 55756413, 131886611, 4514749>>,
        <<53142413, 50062209, 53142575, 50062373, 21>>,
        <<53142413, 50062209, 43113889, 131885278, 5834794>>,
        <<53142575, 50062373, 43113889, 131885278, 5834776>>,
        <<53142413, 53062209, 53142575, 53062373, 21>>,
        <<53142413, 53062209, 43113889, 134885278, 5834794>>,
        <<53142575, 53062373, 43113889, 134885278, 5834776>>,
        <<53142413, 77062209, 53142575, 77062373, 21>>,
        <<53142413, 77062209, 43113889, 158885278, 5834794>>,
        <<53142575, 77062373, 43113889, 158885278, 5834776>>,
        <<10341667, 10341667, 10341667, -10341667, 2262119>>,
        <<10341667, 10341667, -10341667, 10341667, 2299882>>,
        <<10341667, 10341667, -10341667, -10341667, 3243643>>,
        <<10341667, -10341667, -10341667, 10341667, 3243643>>,
        <<10341667, -10341667, -10341667, -10341667, 2299882>>,
        <<-10341667, 10341667, -10341667, -10341667, 2262119>> }

\* A pair outside the table has no value: TLC stops rather than guess one.
haversine_distance(lat1, lon1, lat2, lon2) ==
    IF lat1 = lat2 /\ lon1 = lon2 THEN 0
    ELSE LET hit == {e \in HaversineTable :
                        \/ <<e[1], e[2], e[3], e[4]>> = <<lat1, lon1, lat2, lon2>>
                        \/ <<e[1], e[2], e[3], e[4]>> = <<lat2, lon2, lat1, lon1>>}
         IN  (CHOOSE e \in hit : TRUE)[5]

RECURSIVE SumSeq(_)
SumSeq(q) == IF q = <<>> THEN 0 ELSE q[1] + SumSeq(Tail(q))

\* The distances from point i to every other point, in list order.
PointDistances(coordinates, i) ==
    LET others == SelectSeq([j \in 1..Len(coordinates) |-> j], LAMBDA j : j # i)
    IN  [k \in 1..Len(others) |->
            haversine_distance(coordinates[i].lat, coordinates[i].lon,
                               coordinates[others[k]].lat, coordinates[others[k]].lon)]

\* The test on the sum alone, without the division by the number of
\* distances.
AvgExceeds_total(point_distances, threshold_km) ==
    SumSeq(point_distances) > threshold_km * 1000

\* A test that a mean equal to the threshold passes too.
AvgExceeds_or_equal(point_distances, threshold_km) ==
    SumSeq(point_distances) >= threshold_km * 1000 * Len(point_distances)

\* avg_dist > threshold_km, with the distances in metres: the mean of n
\* distances exceeds the threshold when their sum exceeds n thresholds.
AvgExceeds(point_distances, threshold_km) ==
    SumSeq(point_distances) > threshold_km * 1000 * Len(point_distances)

\* (False, None, [])
NotDetected == [is_anomalous |-> FALSE, reason |-> "", anomalous_points |-> <<>>]

\* Returns (is_anomalous, reason, anomalous_points); reason "" is None,
\* anomalous_points holds the indices, counted from 0.
detect_coordinate_anomalies(coordinates, threshold_km) ==
    IF Len(coordinates) < 3
    THEN [is_anomalous |-> FALSE, reason |-> "", anomalous_points |-> <<>>]
    ELSE LET flagged == SelectSeq([i \in 1..Len(coordinates) |-> i],
                            LAMBDA i : AvgExceeds(PointDistances(coordinates, i), threshold_km))
             anomalous_points == [k \in 1..Len(flagged) |-> flagged[k] - 1]
         IN  IF anomalous_points # <<>>
             THEN [is_anomalous |-> TRUE, reason |-> "Anomalous",
                   anomalous_points |-> anomalous_points]
             ELSE [is_anomalous |-> FALSE, reason |-> "", anomalous_points |-> <<>>]

-----------------------------------------------------------------------------
(* projections.py: the registry.  A system name is the sequence of its      *)
(* tokens, <<"MSK-63", "zona", "1">> for  MSK-63 zona 1; a number of two    *)
(* digits is two tokens, so that a name is a substring of another exactly   *)
(* when its tokens are a contiguous run of the other's.  The file is        *)
(* [status, names]: the names in file order, each standing for its own      *)
(* PROJ4 string.  The registry built from it is the sequence of its         *)
(* [key, proj] in dict order, proj the name whose PROJ4 string the          *)
(* transformer was built from.                                              *)

Digits == {"0", "1", "2", "3", "4", "5", "6", "7", "8", "9"}

\* zone_key_regex.match(name): ^(MSK-[^z]+?)\s+zona\s+\d+\b
ZoneKeyMatch(name) ==
    /\ Len(name) >= 3
    /\ name[1] \in {"MSK-63", "MSK-99"}
    /\ name[2] = "zona"
    /\ name[3] \in Digits

\* match.group(1).strip()
ZonePrefix(name) == <<name[1]>>

RECURSIVE MskGroupOrder(_, _)
\* The keys of msk_groups in insertion order.
MskGroupOrder(names, seen) ==
    IF names = <<>> THEN <<>>
    ELSE IF ZoneKeyMatch(names[1]) /\ ZonePrefix(names[1]) \notin seen
         THEN <<ZonePrefix(names[1])>>
              \o MskGroupOrder(Tail(names), seen \cup {ZonePrefix(names[1])})
         ELSE MskGroupOrder(Tail(names), seen)

\* Groups that keep only the first name of a prefix.
MskGroup_first(names, prefix) ==
    SubSeq(SelectSeq(names, LAMBDA n : n[1] = prefix[1] /\ Len(n) >= 3), 1, 1)

\* msk_groups[prefix]: the names of the group, in file order.
MskGroup(names, prefix) ==
    SelectSeq(names, LAMBDA n : ZoneKeyMatch(n) /\ ZonePrefix(n) = prefix)

RECURSIVE AddAliases(_, _, _)
\* The second loop of get_transformers over msk_groups.items().
AddAliases(proj4_strings, names, prefixes) ==
    IF prefixes = <<>> THEN proj4_strings
    ELSE LET prefix == prefixes[1]
             full_names == MskGroup(names, prefix)
             present == \E k \in 1..Len(proj4_strings) : proj4_strings[k].key = prefix
         IN  AddAliases(
                 IF Len(full_names) = 1 /\ ~present
                 THEN Append(proj4_strings, [key |-> prefix, proj |-> full_names[1]])
                 ELSE proj4_strings,
                 names, Tail(prefixes))

\* A missing or malformed file re-raises what open and json.load raised.
get_transformers(file) ==
    IF file.status = "missing"
    THEN [kind |-> "raise", exc |-> "FileNotFoundError", transformers |-> <<>>]
    ELSE IF file.status = "malformed"
    THEN [kind |-> "raise", exc |-> "JSONDecodeError", transformers |-> <<>>]
    ELSE LET proj4_strings == [k \in 1..Len(file.names) |->
                                  [key |-> file.names[k], proj |-> file.names[k]]]
         IN  [kind |-> "return", exc |-> "",
              transformers |-> AddAliases(proj4_strings, file.names,
                                          MskGroupOrder(file.names, {}))]

-----------------------------------------------------------------------------
(* parsing.py: the metric-grid parser *)

\* float(x_str) of the literals of the model, in centimetres; [-\d.]+ also
\* matches text that is no number, for which float raises ValueError.
FloatFails(lit) == lit \in {"1.2.3", "-"}

Float(lit) ==
    CASE lit = "0" -> 0
      [] lit = "0.0" -> 0
      [] lit = "381631.8" -> 38163180
      [] lit = "381650.0" -> 38165000
      [] lit = "1368949.26" -> 136894926
      [] lit = "1368960.0" -> 136896000
      [] lit = "-738368.2" -> -73836820
      [] lit = "7368949.26" -> 736894926
      [] lit = "20000000" -> 2000000000

\* The central meridian moves with the zone: the shift of the longitude a
\* zone's projection gives, against zone 1, in mas.
ZoneShift(proj) ==
    CASE proj = <<"MSK-63", "zona", "1">> -> 0
      [] proj = <<"MSK-63", "zona", "2">> -> 3 * 3600000
      [] proj = <<"MSK-63", "zona", "1", "0">> -> 27 * 3600000

\* transformer.transform(y_val, x_val) of pyproj, (lon, lat) in mas, for the
\* inputs of the model.  The first two rows are the values tests/unittests.py
\* (lines 199-212) expects; the third is a triple far outside the zone; for
\* the last pyproj returns (inf, inf), here a number above every angle.
transform(proj, y_val, x_val) ==
    CASE <<y_val, x_val>> = <<136894926, 38163180>> ->
            [lon |-> 180223952 + ZoneShift(proj), lat |-> 191312687]
      [] <<y_val, x_val>> = <<136896000, 38165000>> ->
            [lon |-> 180224543 + ZoneShift(proj), lat |-> 191313270]
      [] <<y_val, x_val>> = <<736894926, -73836820>> ->
            [lon |-> 474787001 + ZoneShift(proj), lat |-> 155210000]
      [] <<y_val, x_val>> = <<2000000000, 2000000000>> ->
            [lon |-> 2000000000, lat |-> 2000000000]

\* MSK_COORD_PATTERN.findall(input_string)
MskCoordFindall(input_string) ==
    LET hits == SelectSeq(input_string, LAMBDA sym : sym.t = "msk")
    IN  [k \in 1..Len(hits) |-> <<hits[k].i, hits[k].x, hits[k].y>>]

RECURSIVE MskLoop_renumbering(_, _, _)
\* A loop that numbers the points it keeps 1, 2, ...
MskLoop_renumbering(matches, transformer, results) ==
    IF matches = <<>> THEN Returned(results)
    ELSE
      LET x_str == matches[1][2]
          y_str == matches[1][3]
      IN  IF FloatFails(x_str) \/ FloatFails(y_str)
          THEN ParseError(<<"MskTransformError", "ValueError">>)
          ELSE IF Float(x_str) = 0 /\ Float(y_str) = 0
          THEN MskLoop_renumbering(Tail(matches), transformer, results)
          ELSE LET t == transform(transformer, Float(y_str), Float(x_str))
               IN  IF ~validate_wgs84_range(t.lat, t.lon)
                   THEN ParseError(<<"MskTransformError", "MskOutOfRange">>)
                   ELSE MskLoop_renumbering(Tail(matches), transformer,
                            Append(results, Point(Len(results) + 1, Round6(t.lon),
                                                  Round6(t.lat))))

RECURSIVE MskLoop(_, _, _)
MskLoop(matches, transformer, results) ==
    IF matches = <<>> THEN Returned(results)
    ELSE
      LET i == matches[1][1]
          x_str == matches[1][2]
          y_str == matches[1][3]
      IN  IF FloatFails(x_str) \/ FloatFails(y_str)
          THEN ParseError(<<"MskTransformError", "ValueError">>)
          ELSE IF Float(x_str) = 0 /\ Float(y_str) = 0
          THEN MskLoop(Tail(matches), transformer, results)
          ELSE LET t == transform(transformer, Float(y_str), Float(x_str))
               IN  IF ~validate_wgs84_range(t.lat, t.lon)
                   THEN \* raised at line 57, caught and wrapped at lines 60-63
                        ParseError(<<"MskTransformError", "MskOutOfRange">>)
                   ELSE MskLoop(Tail(matches), transformer,
                            Append(results, Point(i, Round6(t.lon), Round6(t.lat))))

parse_msk_coordinates(input_string, transformer) ==
    LET matches == MskCoordFindall(input_string)
    IN  IF matches = <<>> THEN Returned(<<>>) ELSE MskLoop(matches, transformer, <<>>)

-----------------------------------------------------------------------------
(* parsing.py: SK-42 *)

\* _get_sk42_transformer().transform(lat, lon): the values of the pipeline
\* of parsing.py:177-186 (Krassovsky to geocentric, Helmert shift, back on
\* WGS84) for the points the model's angles give; input in millionths of a
\* degree, output in mas.
Sk42Transform(lat, lon) ==
    CASE <<lat, lon>> = <<55755833, 55755833>> -> [lat |-> 200722192, lon |-> 200715702]
      [] <<lat, lon>> = <<55755833, 131885278>> -> [lat |-> 200723087, lon |-> 474791800]

RECURSIVE Sk42Loop(_, _)
Sk42Loop(points, transformed) ==
    IF points = <<>> THEN Returned(transformed)
    ELSE LET p == points[1]
             t == Sk42Transform(p.lat, p.lon)
         IN  IF ~validate_wgs84_range(t.lat, t.lon)
             THEN ParseError(<<"Sk42OutOfRange">>)
             ELSE Sk42Loop(Tail(points),
                      Append(transformed, Point(p.name, Round6(t.lon), Round6(t.lat))))

transform_points_sk42_to_wgs84(points) == Sk42Loop(points, <<>>)

\* A loader that falls back on a catalog of its own when the file is
\* missing.
load_objects_info_builtin(file) ==
    IF file.exists THEN file.systems
    ELSE <<[key |-> "SK-42",
            entries |-> <<<<Dms(55, 45, 21000, "DEG"), Ch("SP"), Dms(55, 45, 21000, "DEG")>>>>]>>

\* _load_objects_info(): the file's dict, {} when the file is missing or
\* unreadable.  The catalog is [exists, systems], systems the sequence of
\* [key, entries] in file order.
load_objects_info(file) == IF file.exists THEN file.systems ELSE <<>>

\* The first key, in dict order, with an entry whose stripped text is the
\* stripped string; "" is None.
detect_system_key_for_string(str, file) ==
    LET info == load_objects_info(file)
        coord_trimmed == Strip(str)
        hits == SelectSeq(info, LAMBDA sys :
                    \E k \in 1..Len(sys.entries) : Strip(sys.entries[k]) = coord_trimmed)
    IN  IF hits = <<>> THEN "" ELSE hits[1].key

\* s.strip() of line 215 raises AttributeError: the loops of
\* _detect_system_key_for_string come to an entry that is no str before they
\* come to one that matches.
EntryStripFails(str, file) ==
    LET info == load_objects_info(file)
        coord_trimmed == Strip(str)
    IN  \E k \in 1..Len(info) : \E e \in 1..Len(info[k].entries) :
            /\ \E i \in 1..Len(info[k].entries[e]) : info[k].entries[e][i].t = "obj"
            /\ \A k2 \in 1..k : \A e2 \in 1..Len(info[k2].entries) :
                   (k2 < k \/ e2 < e) => Strip(info[k2].entries[e2]) # coord_trimmed

\* system_key.strip().upper() for the keys of the model.
StripUpper(system_key) ==
    CASE system_key = " sk-42" -> "SK-42" [] OTHER -> system_key

-----------------------------------------------------------------------------
(* parsing.py: the dispatcher *)

\* 'gsk' in coord_str, without lower().
should_prioritize_dms_exact_case(str) ==
    \E i \in 1..Len(str) : str[i].t = "word" /\ str[i].w = "gsk"

\* 'gsk' in coord_str.lower()
should_prioritize_dms(str) ==
    \E i \in 1..Len(str) : str[i].t = "word" /\ str[i].w \in {"GSK-2011", "gsk"}

\* (' m.' in s or ', m.' in s or s.endswith('m.')) and '°' not in s
looks_like_msk(str) ==
    /\ \/ \E i \in 1..Len(str) :
              \/ str[i].t = "msk" /\ str[i].gap
              \/ str[i].t = "word" /\ str[i].w = "5 m."
       \/ \E i \in 1..Len(str) : str[i].t = "word" /\ str[i].w = "X, m."
       \/ str # <<>> /\ \/ str[Len(str)].t = "msk"
                        \/ str[Len(str)].t = "word" /\ str[Len(str)].w \in {"5 m.", "X, m."}
    /\ ~looks_like_dms(str)

\* key in coord_str
KeyInStr(key, str) ==
    \E i \in 1..Len(str) :
        /\ str[i].t = "name"
        /\ \E a \in 1..(Len(str[i].w) - Len(key) + 1) :
               SubSeq(str[i].w, a, a + Len(key) - 1) = key

Call(f, arg) == [f |-> f, arg |-> arg]
Result(out, made) == [outcome |-> out, calls |-> made]

\* A branch end without the anomaly check.
CheckedPoints_unchecked(points, cfg, made) == Result(Returned(points), made)

\* The anomaly check each branch ends with.
CheckedPoints(points, cfg, made) ==
    IF Len(points) >= 3
    THEN LET d == detect_coordinate_anomalies(points, cfg.anomaly_threshold_km)
             made2 == Append(made, Call("detect_coordinate_anomalies", <<>>))
         IN  IF d.is_anomalous
             THEN Result(ParseError(<<d.reason>>), made2)
             ELSE Result(Returned(points), made2)
    ELSE Result(Returned(points), made)

\* Lines 257-280: the string is an entry of the catalog under SK-42.
Sk42Branch(str, cfg, made) ==
    LET dms == parse_dms_coordinates(str)
        made1 == Append(made, Call("parse_dms_coordinates", <<>>))
    IN  IF dms.kind = "raise" THEN Result(dms, made1)
        ELSE IF dms.points = <<>> THEN Result(Returned(<<>>), made1)
        ELSE LET tr == transform_points_sk42_to_wgs84(dms.points)
                 made2 == Append(made1, Call("transform_points_sk42_to_wgs84", <<>>))
             IN  IF tr.kind = "raise" THEN Result(tr, made2)
                 ELSE CheckedPoints(tr.points, cfg, made2)

\* A metric-grid branch that gives no points when no key is contained.
MskBranch_silent(str, registry, cfg, made) ==
    LET found == SelectSeq(registry, LAMBDA e : KeyInStr(e.key, str))
    IN  IF found = <<>> THEN Result(Returned(<<>>), made)
        ELSE LET msk == parse_msk_coordinates(str, found[1].proj)
                 made1 == Append(made, Call("parse_msk_coordinates", found[1].key))
             IN  IF msk.kind = "raise" THEN Result(msk, made1)
                 ELSE CheckedPoints(msk.points, cfg, made1)

\* Lines 294-308: the first key of the registry the string contains.
MskBranch(str, registry, cfg, made) ==
    LET found == SelectSeq(registry, LAMBDA e : KeyInStr(e.key, str))
    IN  IF found = <<>> THEN Result(ParseError(<<"UnknownMskSystem">>), made)
        ELSE LET msk == parse_msk_coordinates(str, found[1].proj)
                 made1 == Append(made, Call("parse_msk_coordinates", found[1].key))
             IN  IF msk.kind = "raise" THEN Result(msk, made1)
                 ELSE CheckedPoints(msk.points, cfg, made1)

\* Lines 310-328.
DmsBranch(str, cfg, made) ==
    IF ~looks_like_dms(str) THEN Result(Returned(<<>>), made)
    ELSE LET dms == parse_dms_coordinates(str)
             made1 == Append(made, Call("parse_dms_coordinates", <<>>))
         IN  IF dms.kind = "raise" THEN Result(dms, made1)
             ELSE CheckedPoints(dms.points, cfg, made1)

\* A handler that lets what get_transformers raised pass.
LoadFailure_reraised(exc) == Raised(exc, <<>>)

\* Lines 290-293: whatever get_transformers raised becomes ParseError.
LoadFailure(exc) == ParseError(<<"ProjLoadFailed">>)

\* bool(v): an empty str is false, an object says it itself.
Truthy(v) == v # <<>> /\ (v[1].t = "obj" => v[1].truthy)

\* An isinstance that takes every value for a str.
isinstance_str_anything(v) == TRUE

\* isinstance(v, str)
isinstance_str(v) == \A i \in 1..Len(v) : v[i].t # "obj"

\* v.strip exists; where it does not, v.strip() raises AttributeError.
HasStrip(v) == \A i \in 1..Len(v) : v[i].t # "obj"

\* parse_coordinates(coord_str, transformers, proj4_path, config); given is
\* [given, map], given FALSE for None, file is what proj4_path holds and
\* catalog what data/objects_info.json holds.
parse_coordinates(str0, given, file, catalog, cfg) ==
    IF ~Truthy(str0) \/ ~isinstance_str(str0) THEN Result(Returned(<<>>), <<>>)
    ELSE IF ~HasStrip(str0) THEN Result(Raised("AttributeError", <<>>), <<>>)
    ELSE
      LET str == Strip(str0)
      IN  IF str = <<>> THEN Result(Returned(<<>>), <<>>)
          ELSE
            LET system_key == detect_system_key_for_string(str, catalog)
                made == <<Call("_detect_system_key_for_string", <<>>)>>
            IN  IF EntryStripFails(str, catalog)
                THEN Result(Raised("AttributeError", <<>>), made)
                ELSE IF system_key # "" /\ StripUpper(system_key) = "SK-42"
                THEN Sk42Branch(str, cfg, made)
                ELSE IF should_prioritize_dms(str) THEN DmsBranch(str, cfg, made)
                ELSE IF looks_like_msk(str)
                THEN IF given.given THEN MskBranch(str, given.map, cfg, made)
                     ELSE LET loaded == get_transformers(file)
                              made1 == Append(made, Call("get_transformers", <<>>))
                          IN  IF loaded.kind = "raise"
                              THEN Result(LoadFailure(loaded.exc), made1)
                              ELSE MskBranch(str, loaded.transformers, cfg, made1)
                ELSE DmsBranch(str, cfg, made)

-----------------------------------------------------------------------------
(* projections.py: get_transformers behind functools.lru_cache *)

\* The default of proj4_path, and another path.
DefaultPath == "data/proj4.json"
OtherPath == "other/proj4.json"
Paths == {DefaultPath, OtherPath}

\* transformers=None
None == [given |-> FALSE, map |-> <<>>]

\* A cache that files every call under one key.
make_key_pathless(args) == <<>>

\* The key lru_cache files a call under: the arguments as they were passed,
\* <<>> for get_transformers() and <<path>> for get_transformers(path).
make_key(args) == args

\* The path a call reads: its argument, or the default of proj4_path.
PathOf(args) == IF args = <<>> THEN DefaultPath ELSE args[1]

\* A call of the wrapped get_transformers in a process whose registry files
\* are files, whose cache holds stored and which opened the paths of opened
\* so far.  A hit returns the stored dict; a miss opens the file, and files
\* the new dict (id: a fresh object) only when the load returned.
cached_get_transformers(args, files, stored, opened) ==
    LET key == make_key(args)
        hit == {e \in stored : e.key = key}
    IN  IF hit # {}
        THEN LET e == CHOOSE x \in hit : TRUE
             IN  [kind |-> "return", exc |-> "", id |-> e.id, transformers |-> e.map,
                  opened |-> FALSE, cache |-> stored, opens |-> opened]
        ELSE LET loaded == get_transformers(files[PathOf(args)])
                 opened1 == Append(opened, PathOf(args))
             IN  IF loaded.kind = "raise"
                 THEN [kind |-> "raise", exc |-> loaded.exc, id |-> 0, transformers |-> <<>>,
                       opened |-> TRUE, cache |-> stored, opens |-> opened1]
                 ELSE [kind |-> "return", exc |-> "", id |-> Len(opened1),
                       transformers |-> loaded.transformers, opened |-> TRUE,
                       cache |-> stored \cup {[key |-> key, id |-> Len(opened1),
                                                map |-> loaded.transformers]},
                       opens |-> opened1]

\* The call came to line 287, where the registry is asked for: it loaded the
\* registry, or went on with the one it had to parse_msk_coordinates or to the
\* unknown-system failure.
AsksForRegistry(parsed) ==
    \/ \E i \in 1..Len(parsed.calls) :
          parsed.calls[i].f \in {"get_transformers", "parse_msk_coordinates"}
    \/ parsed.outcome = ParseError(<<"UnknownMskSystem">>)

\* What a call of parse_coordinates leaves behind in the process: parsed is
\* what it did with the registry got gave it.
ProcessParsed(parsed, got, stored, opened) ==
    IF AsksForRegistry(parsed)
    THEN [outcome |-> parsed.outcome, called |-> TRUE, ok |-> got.kind = "return",
          id |-> got.id, opened |-> got.opened, cache |-> got.cache, opens |-> got.opens]
    ELSE [outcome |-> parsed.outcome, called |-> FALSE, ok |-> FALSE, id |-> 0,
          opened |-> FALSE, cache |-> stored, opens |-> opened]

\* parse_coordinates(coord_str, None, proj4_path, config) in such a process:
\* line 289 passes the path to get_transformers as a positional argument, and
\* only the metric-grid branch gets that far.  The call works with the dict
\* the cache or the file gave; where the file gave none, it fails as it does
\* without a registry file.
process_parse_coordinates(str, path, catalog, cfg, files, stored, opened) ==
    LET got == cached_get_transformers(<<path>>, files, stored, opened)
    IN  ProcessParsed(
            parse_coordinates(str,
                              IF got.kind = "return"
                              THEN [given |-> TRUE, map |-> got.transformers]
                              ELSE None,
                              files[path], catalog, cfg),
            got, stored, opened)

\* ProcessingStats(): no file result, no error (the start time, the regions
\* and the list of created files are left out).
ProcessingStats ==
    [file_results |-> <<>>, conversion_errors |-> 0, anomaly_files_generated |-> 0]

\* No session has begun.
SessionIdle ==
    /\ futures = <<>>
    /\ processing_stats = ProcessingStats
    /\ totals = <<>>
    /\ quality = <<>>

\* No run of create_kml_from_coordinates has begun.
PipelineIdle ==
    /\ sheet = <<>>
    /\ row_idx = 0
    /\ stats = ConversionResult
    /\ anomalies_list = <<>>
    /\ kml = <<>>
    /\ pc = "idle"
    /\ raised = ""

-----------------------------------------------------------------------------
(* The inputs.  Bounds of the model: *)

MaxAngles == 6      \* angles in a text handed to parse_coordinates
MaxTriples == 3     \* metric-grid triples in a text
MaxDmsAngles == 4   \* angles in a text handed to parse_dms_coordinates
MaxDmsPairs == 2    \* pairs in such a text when it carries hemisphere markers

\* Config.anomaly_threshold_km
DefaultThresholdKm == 20

SeqsUpTo(S, n) == UNION {[1..k -> S] : k \in 0..n}

RECURSIVE Spaced(_)
\* The symbols of q with a space between neighbours.
Spaced(q) == IF Len(q) <= 1 THEN q ELSE <<q[1], SP>> \o Spaced(Tail(q))

RECURSIVE Flat(_)
\* The concatenation of the sequences of q.
Flat(q) == IF q = <<>> THEN <<>> ELSE q[1] \o Flat(Tail(q))

\* System names.
Zona1 == <<"MSK-63", "zona", "1">>
Zona2 == <<"MSK-63", "zona", "2">>
Zona10 == <<"MSK-63", "zona", "1", "0">>
Bare63 == <<"MSK-63">>
Zona99 == <<"MSK-99", "zona", "1">>

\* Angles: 55°45'21", 131°53'07" (no latitude), and the first written with
\* U+00BA.
A55 == Dms(55, 45, 21000, "DEG")
A131 == Dms(131, 53, 7000, "DEG")
A55o == Dms(55, 45, 21000, "ORD")

\* Triples: two points 21 m apart, one far away, a placeholder, one whose
\* literal is no number, one the projection cannot place, and one written
\* with a space before the unit.
TNear == Msk(1, "381631.8", "1368949.26", FALSE)
TNear2 == Msk(2, "381650.0", "1368960.0", FALSE)
TFar == Msk(3, "-738368.2", "7368949.26", FALSE)
TZero == Msk(4, "0", "0.0", FALSE)
TBad == Msk(5, "1.2.3", "1368949.26", FALSE)
TOut == Msk(6, "20000000", "20000000", FALSE)
TGap == Msk(7, "381631.8", "1368949.26", TRUE)

\* data/proj4.json
ProjFiles ==
    {   [status |-> "missing", names |-> <<>>],
        [status |-> "malformed", names |-> <<>>],
        [status |-> "ok", names |-> <<Zona1>>],
        [status |-> "ok", names |-> <<Zona1, Zona2>>],
        [status |-> "ok", names |-> <<Zona1, Zona10>>],
        [status |-> "ok", names |-> <<Zona10, Zona1>>] }

\* A process that has no registry file at either path.
NoDisk == [path \in Paths |-> [status |-> "missing", names |-> <<>>]]

\* What a caller may pass as transformers: None, or the registry it loaded
\* from the file (workers.py:35-40 passes None when loading failed).
TransformersFor(file) ==
    {None} \cup
    IF get_transformers(file).kind = "return"
    THEN {[given |-> TRUE, map |-> get_transformers(file).transformers]}
    ELSE {}

Other == <<Word("Samara")>>

\* data/objects_info.json: missing, or a catalog that lists the string, or
\* another one, under these keys.
CatalogsFor(str) ==
    {   [exists |-> FALSE, systems |-> <<>>],
        [exists |-> TRUE, systems |-> <<[key |-> "SK-42", entries |-> <<Other, str>>]>>],
        [exists |-> TRUE, systems |-> <<[key |-> "SK-42", entries |-> <<Other>>]>>],
        [exists |-> TRUE, systems |-> <<[key |-> " sk-42", entries |-> <<str \o <<SP>>>>]>>],
        [exists |-> TRUE, systems |-> <<[key |-> "SK-95", entries |-> <<str>>],
                                        [key |-> "SK-42", entries |-> <<Other>>]>>],
        [exists |-> TRUE, systems |-> <<[key |-> "SK-95", entries |-> <<str>>],
                                        [key |-> "SK-42", entries |-> <<str>>]>>] }

\* An entry that is JSON null.
NullEntry == <<Obj("NoneType", FALSE)>>

\* A catalog that is JSON but holds an entry that is no string.
BrokenCatalogs ==
    {   [exists |-> TRUE, systems |-> <<[key |-> "SK-42", entries |-> <<NullEntry>>]>>],
        [exists |-> TRUE, systems |-> <<[key |-> "SK-42", entries |-> <<Other, NullEntry>>]>>] }

Configs == {[anomaly_threshold_km |-> DefaultThresholdKm], [anomaly_threshold_km |-> 5000]}

\* Texts for parse_coordinates, each family with the environments it is
\* tried in.  A header is followed by a space, so that no digit of a name
\* runs into an angle.
DmsTexts ==
    {h \o Spaced(q) : h \in {<<>>, <<Word("GSK-2011"), SP>>, <<Name(Zona1), SP>>},
                      q \in SeqsUpTo({A55, A131}, MaxAngles)}

OrdTexts ==
    {h \o b : h \in {<<>>, <<SP>>, <<Word("gsk"), SP>>, <<Word("5 m."), SP>>,
                     <<Word("X, m."), SP>>, <<Ch("DEG"), SP>>},
              b \in {<<>>, <<A55o, SP, A55o>>, <<A55o, SP, A55>>, <<Word("5 m.")>>}}

\* Triples stand one after another, as in tests/unittests.py:201.
LongMskTexts ==
    {h \o q : h \in {<<Name(Zona1), SP>>, <<Name(Zona10), SP>>, <<Word("GSK-2011"), SP>>},
              q \in SeqsUpTo({TNear, TNear2, TFar}, MaxTriples)}

ShortMskTexts ==
    {h \o b \o t :
        h \in {<<>>, <<Word("Samara"), SP>>, <<Word("GSK-2011"), SP>>, <<Name(Zona1), SP>>,
               <<Name(Zona2), SP>>, <<Name(Zona10), SP>>, <<Name(Bare63), SP>>,
               <<Name(Zona99), SP>>},
        b \in {<<x>> : x \in {TNear, TFar, TZero, TBad, TOut, TGap}}
              \cup {<<TNear, TZero>>, <<TZero, TNear>>, <<TZero, TNear2>>, <<TNear, TBad>>,
                    <<TNear, TOut>>},
        t \in {<<>>, <<SP, Word("berega")>>}}

MixedTexts ==
    {h \o b \o t :
        h \in {<<Name(Zona1), SP>>, <<Name(Zona1), SP, Word("GSK-2011"), SP>>},
        b \in {<<A55, SP, A55>>, <<A55o, SP, A55o>>},
        t \in {<<SEMI, SP, TNear>>, <<SEMI, SP, TGap, SP>>}}

\* None, 0, 42, an empty list, a list of one item; the empty text and texts
\* of spaces and line ends.
NonTexts ==
    {<<Obj("NoneType", FALSE)>>, <<Obj("int", FALSE)>>, <<Obj("int", TRUE)>>,
     <<Obj("list", FALSE)>>, <<Obj("list", TRUE)>>}

BlankTexts == {<<>>, <<SP>>, <<NL>>, <<NL, SP, SP, NL>>}

InputFamilies ==
    {   [texts |-> NonTexts,
         files |-> {[status |-> "missing", names |-> <<>>],
                    [status |-> "ok", names |-> <<Zona1>>]},
         catalogs |-> "other", configs |-> Configs],
        [texts |-> {<<SP>>, Other, <<A55, SP, A55>>},
         files |-> {[status |-> "missing", names |-> <<>>],
                    [status |-> "ok", names |-> <<Zona1>>]},
         catalogs |-> "broken", configs |-> Configs],
        [texts |-> BlankTexts,
         files |-> {[status |-> "missing", names |-> <<>>],
                    [status |-> "ok", names |-> <<Zona1>>]},
         catalogs |-> "all", configs |-> Configs],
        [texts |-> DmsTexts,
         files |-> {[status |-> "ok", names |-> <<Zona1>>]},
         catalogs |-> "all", configs |-> Configs],
        [texts |-> OrdTexts \cup MixedTexts,
         files |-> {[status |-> "missing", names |-> <<>>],
                    [status |-> "ok", names |-> <<Zona1>>]},
         catalogs |-> "all", configs |-> {[anomaly_threshold_km |-> DefaultThresholdKm]}],
        [texts |-> LongMskTexts,
         files |-> {f \in ProjFiles : f.status = "ok" /\ f.names # <<Zona1, Zona2>>},
         catalogs |-> "some", configs |-> Configs],
        [texts |-> ShortMskTexts,
         files |-> ProjFiles,
         catalogs |-> "some", configs |-> {[anomaly_threshold_km |-> DefaultThresholdKm]}] }

Init ==
    /\ \E f \in InputFamilies :
          /\ coord_str \in f.texts
          /\ proj4_file \in f.files
          /\ config \in f.configs
          /\ objects_info \in
                IF f.catalogs = "broken" THEN BrokenCatalogs
                ELSE IF f.catalogs = "all" THEN CatalogsFor(coord_str)
                ELSE IF f.catalogs = "some"
                THEN {c \in CatalogsFor(coord_str) :
                        ~c.exists \/ (Len(c.systems) = 1 /\ c.systems[1].key = "SK-42")}
                ELSE {c \in CatalogsFor(Other) : ~c.exists \/ Len(c.systems) = 2}
    /\ transformers \in
          IF \E i \in 1..Len(coord_str) : coord_str[i].t = "msk"
          THEN TransformersFor(proj4_file) ELSE {None}
    /\ op = "none"
    /\ outcome = Returned(<<>>)
    /\ calls = <<>>
    /\ det_coordinates = <<>>
    /\ det_threshold_km = DefaultThresholdKm
    /\ det_result = NotDetected
    /\ disk = NoDisk
    /\ cache = {}
    /\ opens = <<>>
    /\ history = <<>>
    /\ threads = <<>>
    /\ PipelineIdle
    /\ SessionIdle

\* Texts for parse_dms_coordinates.  Angles: 0°0'0", 0°0'0.001", 40°50'60",
\* 91°0'0", 181°0'0", 10°20'30".
Z0 == Dms(0, 0, 0, "DEG")
Tiny == Dms(0, 0, 1, "DEG")
A40 == Dms(40, 50, 60000, "DEG")
A91 == Dms(91, 0, 0, "DEG")
A181 == Dms(181, 0, 0, "DEG")
A10 == Dms(10, 20, 30000, "DEG")

\* Where the ';' stand between the angles of a text: nowhere, after every
\* angle, after every second one (a pair to a part), after every odd one (a
\* pair split over two parts).
Layouts == {"spaces", "each", "pairs", "split"}

SepAfter(layout, k) ==
    CASE layout = "spaces" -> SP
      [] layout = "each" -> SEMI
      [] layout = "pairs" -> IF k % 2 = 0 THEN SEMI ELSE SP
      [] layout = "split" -> IF k % 2 = 1 THEN SEMI ELSE SP

LaidOut(q, layout) ==
    Flat([k \in 1..Len(q) |-> IF k < Len(q) THEN <<q[k], SepAfter(layout, k)>> ELSE <<q[k]>>])

PlainDmsTexts ==
    {LaidOut(q, layout) : q \in SeqsUpTo({Z0, Tiny, A40, A91, A181}, MaxDmsAngles),
                          layout \in Layouts}

\* Marked texts are made of pairs  10°20'30" p 10°20'30" q.  Between the
\* angles p: a space, a ';', YuSh standing alone, S standing alone before a
\* ';'.  After them q: a space, a ';', ZD standing alone, w standing alone,
\* ZD inside YuZD-2, S inside Sx, ZD before a digit.
InnerPieces ==
    {   <<SP>>,
        <<SEMI>>,
        <<SP, Ch("YU"), Ch("SHA"), SP>>,
        <<Ch("S"), SEMI>> }

OuterPieces ==
    {   <<SP>>,
        <<SEMI>>,
        <<SP, Ch("ZE"), Ch("DE"), SEMI>>,
        <<SP, Ch("w"), SP>>,
        <<SP, Ch("YU"), Ch("ZE"), Ch("DE"), Ch("HYPH"), Ch("D2"), SEMI>>,
        <<Ch("S"), Ch("x"), SP>>,
        <<Ch("ZE"), Ch("DE"), Ch("D2"), SP>> }

MarkedPairs == {<<A10>> \o p \o <<A10>> \o q : p \in InnerPieces, q \in OuterPieces}

MarkedDmsTexts == {Flat(q) : q \in SeqsUpTo(MarkedPairs, MaxDmsPairs)}

\* Numbered texts are made of pairs  m 55°45'21" 55°45'21"  with a space or
\* a ';' between the pairs; m is nothing, an index 'N:' or a label
\* 'tochka N', as in tests/unittests.py:194.
NumberedPair(m) == m \o <<A55, SP, A55>>
Numberings == {<<>>, <<Idx(5)>>, <<Idx(7), SP>>, <<Alt(9), SP>>}
NumberedDmsTexts ==
    {NumberedPair(m) : m \in Numberings}
    \cup {NumberedPair(m) \o <<sep>> \o NumberedPair(n) :
              m \in Numberings, n \in Numberings, sep \in {SP, SEMI}}

InitDms ==
    /\ coord_str \in PlainDmsTexts \cup MarkedDmsTexts \cup NumberedDmsTexts
    /\ proj4_file = [status |-> "ok", names |-> <<Zona1>>]
    /\ transformers = None
    /\ objects_info = [exists |-> FALSE, systems |-> <<>>]
    /\ config = [anomaly_threshold_km |-> DefaultThresholdKm]
    /\ op = "none"
    /\ outcome = Returned(<<>>)
    /\ calls = <<>>
    /\ det_coordinates = <<>>
    /\ det_threshold_km = DefaultThresholdKm
    /\ det_result = NotDetected
    /\ disk = NoDisk
    /\ cache = {}
    /\ opens = <<>>
    /\ history = <<>>
    /\ threads = <<>>
    /\ PipelineIdle
    /\ SessionIdle

-----------------------------------------------------------------------------
(* The calls *)

ParseCoordinates ==
    /\ op = "none"
    /\ LET r == parse_coordinates(coord_str, transformers, proj4_file, objects_info, config)
       IN  /\ outcome' = r.outcome
           /\ calls' = r.calls
    /\ op' = "parse_coordinates"
    /\ UNCHANGED <<coord_str, transformers, proj4_file, objects_info, config, detect_vars,
                   process_vars, thread_vars,
                   pipeline_vars, session_vars>>

\* parse_dms_coordinates(coord_str: str)
ParseDmsCoordinates ==
    /\ op = "none"
    /\ isinstance_str(coord_str)
    /\ outcome' = parse_dms_coordinates(coord_str)
    /\ op' = "parse_dms_coordinates"
    /\ UNCHANGED <<coord_str, transformers, proj4_file, objects_info, config, calls,
                   detect_vars, process_vars, thread_vars,
                   pipeline_vars, session_vars>>

\* parse_msk_coordinates(input_string: str, transformer) with a transformer
\* of the registry.
ParseMskCoordinates ==
    /\ op = "none"
    /\ isinstance_str(coord_str)
    /\ get_transformers(proj4_file).kind = "return"
    /\ \E k \in 1..Len(get_transformers(proj4_file).transformers) :
          outcome' = parse_msk_coordinates(coord_str,
                         get_transformers(proj4_file).transformers[k].proj)
    /\ op' = "parse_msk_coordinates"
    /\ UNCHANGED <<coord_str, transformers, proj4_file, objects_info, config, calls,
                   detect_vars, process_vars, thread_vars,
                   pipeline_vars, session_vars>>

Next == ParseCoordinates \/ ParseDmsCoordinates \/ ParseMskCoordinates

\* The entry points on the texts of the dispatcher, and on texts of angles,
\* separators and hemisphere markers.
Spec == Init /\ [][Next]_vars

SpecDms == InitDms /\ [][Next]_vars

-----------------------------------------------------------------------------
(* What the properties below read off a state: the text as it was handed   *)
(* in, and the result of the call.                                         *)

Abs(v) == IF v < 0 THEN -v ELSE v

Called(f) == \E i \in 1..Len(calls) : calls[i].f = f

\* The positions of the angles of the text, in reading order.
AnglePositions ==
    SelectSeq([i \in 1..Len(coord_str) |-> i], LAMBDA i : coord_str[i].t = "dms")

\* deg + min/60 + sec/3600 of the angle at position i, in mas.
Magnitude(i) == coord_str[i].d * 3600000 + coord_str[i].m * 60000 + coord_str[i].s

PairCount == Len(AnglePositions) \div 2
LatPos(k) == AnglePositions[2 * k - 1]
LonPos(k) == AnglePositions[2 * k]

\* The ';'-separated part position i lies in runs from PartStart(i) to
\* PartEnd(i).
PartStart(i) ==
    LET before == {j \in 1..(i - 1) : coord_str[j] = SEMI}
    IN  IF before = {} THEN 1 ELSE 1 + CHOOSE j \in before : \A h \in before : h <= j

PartEnd(i) ==
    LET after == {j \in (i + 1)..Len(coord_str) : coord_str[j] = SEMI}
    IN  IF after = {} THEN Len(coord_str) ELSE (CHOOSE j \in after : \A h \in after : j <= h) - 1

\* The token stands in coord_str[lo..hi], in any letter case, with no letter
\* right before it and none right after it.
TokenAlone(lo, hi, token) ==
    \E a \in lo..(hi - Len(token) + 1) :
        /\ \A k \in 1..Len(token) :
              coord_str[a + k - 1].t = "ch" /\ Upper(coord_str[a + k - 1].c) = token[k]
        /\ a = 1 \/ ~LastIsLetter(coord_str[a - 1])
        /\ a + Len(token) > Len(coord_str) \/ ~FirstIsLetter(coord_str[a + Len(token)])

MarkerInParts(k, tokens) ==
    \E i \in {LatPos(k), LonPos(k)}, t \in tokens : TokenAlone(PartStart(i), PartEnd(i), t)

South(k) == MarkerInParts(k, {<<"YU", "SHA">>, <<"S">>})
West(k) == MarkerInParts(k, {<<"ZE", "DE">>, <<"W">>})

\* The pairs that are not the placeholder 0, 0.
KeptPairs ==
    SelectSeq([k \in 1..PairCount |-> k],
              LAMBDA k : Magnitude(LatPos(k)) # 0 \/ Magnitude(LonPos(k)) # 0)

PairInRange(k) ==
    Magnitude(LatPos(k)) <= 90 * 3600000 /\ Magnitude(LonPos(k)) <= 180 * 3600000

\* A triple whose literals are numbers, not both 0, that no projection of the
\* model places inside the range.
OutsideTriple(sym) ==
    /\ sym.t = "msk"
    /\ ~FloatFails(sym.x) /\ ~FloatFails(sym.y)
    /\ Float(sym.x) # 0 \/ Float(sym.y) # 0
    /\ \A proj \in {Zona1, Zona2, Zona10} :
          LET t == transform(proj, Float(sym.y), Float(sym.x))
          IN  ~validate_wgs84_range(t.lat, t.lon)

\* A Point's coordinates, in millionths of a degree, are inside the range.
PointInRange(p) ==
    /\ -90000000 <= p.lat /\ p.lat <= 90000000
    /\ -180000000 <= p.lon /\ p.lon <= 180000000

RaisedParseError == outcome.kind = "raise" /\ outcome.exc = "ParseError"

InReason(fragment) == \E i \in 1..Len(outcome.reason) : outcome.reason[i] = fragment

\* C1: every Point parse_coordinates returns has -90 <= lat <= 90 and
\* -180 <= lon <= 180; and when the parser the call ran met a pair of angles or
\* a triple outside the range, the call raised ParseError and gave no points,
\* those of earlier valid pairs included.
C1_RangeOrFailure ==
    op = "parse_coordinates" =>
        /\ \A i \in 1..Len(outcome.points) : PointInRange(outcome.points[i])
        /\ ( /\ Called("parse_dms_coordinates")
             /\ Len(AnglePositions) % 2 = 0
             /\ \E k \in 1..PairCount : ~PairInRange(k) )
           => RaisedParseError /\ outcome.points = <<>>
        /\ ( /\ Called("parse_msk_coordinates")
             /\ \E i \in 1..Len(coord_str) : OutsideTriple(coord_str[i]) )
           => RaisedParseError /\ outcome.points = <<>>

\* A text of two pairs, the first inside the range and the second not, for
\* which the call raised the range failure.
C1_Witness ==
    /\ op = "parse_coordinates"
    /\ PairCount = 2 /\ Len(AnglePositions) = 4
    /\ PairInRange(1) /\ ~PairInRange(2)
    /\ RaisedParseError /\ InReason("DmsOutOfRange")

\* C2: parse_dms_coordinates raises ParseError with the odd-count reason
\* exactly when the number of angles in the whole text is odd, wherever the
\* ';' stand.
C2_OddCountFails ==
    op = "parse_dms_coordinates" =>
        (Len(AnglePositions) % 2 = 1 <=> RaisedParseError /\ InReason("OddDmsCount"))

\* Three angles, one in the first part and two in the second, and the
\* odd-count failure.
C2_Witness ==
    /\ op = "parse_dms_coordinates"
    /\ Len(AnglePositions) = 3
    /\ Len(coord_str) >= 2 /\ coord_str[2] = SEMI
    /\ RaisedParseError /\ InReason("OddDmsCount")

\* C3: with an even number of angles, the k-th pair is the angles 2k and 2k+1
\* (counted from 0) as latitude and longitude, across ';' too, each of
\* magnitude deg + min/60 + sec/3600; no pair is refused for a minute or a
\* second field of 60 or more, so every text whose pairs are inside the range
\* gives a list of points.
C3_PairingAndMagnitude ==
    (op = "parse_dms_coordinates" /\ Len(AnglePositions) % 2 = 0) =>
        /\ (\A k \in 1..PairCount : PairInRange(k)) => outcome.kind = "return"
        /\ outcome.kind = "return" =>
              /\ Len(outcome.points) = Len(KeptPairs)
              /\ \A i \in 1..Len(KeptPairs) :
                    /\ Abs(outcome.points[i].lat) = Round6(Magnitude(LatPos(KeptPairs[i])))
                    /\ Abs(outcome.points[i].lon) = Round6(Magnitude(LonPos(KeptPairs[i])))

\* 40°50'60" as latitude in one part and a longitude in the next part made
\* the point of latitude 40.85.
C3_Witness ==
    /\ op = "parse_dms_coordinates"
    /\ Len(coord_str) >= 3 /\ coord_str[1] = A40 /\ coord_str[2] = SEMI
    /\ outcome.kind = "return" /\ outcome.points # <<>>
    /\ outcome.points[1].lat = 40850000

\* C4: in a list parse_dms_coordinates returns, the latitude of a pair is
\* negative exactly when a South marker stands alone in the part or parts its
\* two angles came from, and the longitude exactly when a West marker does; a
\* marker inside a longer run of letters flips nothing.
C4_SignsFollowStandaloneMarkers ==
    (op = "parse_dms_coordinates" /\ outcome.kind = "return") =>
        /\ Len(outcome.points) = Len(KeptPairs)
        /\ \A i \in 1..Len(KeptPairs) :
              LET k == KeptPairs[i]
                  p == outcome.points[i]
              IN  /\ p.lat = (IF South(k) THEN -1 ELSE 1) * Round6(Magnitude(LatPos(k)))
                  /\ p.lon = (IF West(k) THEN -1 ELSE 1) * Round6(Magnitude(LonPos(k)))

\* One pair with S standing alone between its angles and the run YuZD-2 after
\* them: the latitude came out negative, the longitude positive.
C4_Witness ==
    /\ op = "parse_dms_coordinates"
    /\ outcome.kind = "return" /\ Len(outcome.points) = 1
    /\ \E a \in 1..(Len(coord_str) - 2) :
          coord_str[a] = Ch("YU") /\ coord_str[a + 1] = Ch("ZE") /\ coord_str[a + 2] = Ch("DE")
    /\ outcome.points[1].lat < 0
    /\ outcome.points[1].lon > 0

\* C5: no list parse_dms_coordinates or parse_msk_coordinates returns holds a
\* Point with lon = 0 and lat = 0.
C5_NoZeroPoint ==
    (op \in {"parse_dms_coordinates", "parse_msk_coordinates"} /\ outcome.kind = "return") =>
        \A i \in 1..Len(outcome.points) :
            ~(outcome.points[i].lon = 0 /\ outcome.points[i].lat = 0)

\* What the dispatcher's properties read off the text and its environment.
TrimmedText == Strip(coord_str)

\* 'gsk' in the text, in any letter case.
HasGsk == \E i \in 1..Len(coord_str) :
              coord_str[i].t = "word" /\ coord_str[i].w \in {"GSK-2011", "gsk"}

\* The character U+00B0 in the text.
HasDegreeSign ==
    \E i \in 1..Len(coord_str) :
        \/ coord_str[i] = Ch("DEG")
        \/ coord_str[i].t = "dms" /\ coord_str[i].deg = "DEG"

\* The trimmed text equals a trimmed entry of the catalog, under any key and
\* under the key SK-42.
ListedUnder(keys) ==
    /\ objects_info.exists
    /\ \E k \in 1..Len(objects_info.systems) :
          /\ StripUpper(objects_info.systems[k].key) \in keys
          /\ \E e \in 1..Len(objects_info.systems[k].entries) :
                 Strip(objects_info.systems[k].entries[e]) = TrimmedText

Listed == ListedUnder({"SK-42", "SK-95"})
Sk42Listed == ListedUnder({"SK-42"})

\* The registry the call works with: the one passed in, else the one the
\* file gives, if it gives one.
RegistryAvailable == transformers.given \/ get_transformers(proj4_file).kind = "return"

Registry ==
    IF transformers.given THEN transformers.map
    ELSE get_transformers(proj4_file).transformers

ContainedKeys ==
    {Registry[k].key : k \in {h \in 1..Len(Registry) : KeyInStr(Registry[h].key, TrimmedText)}}

MetricTextWithoutKey ==
    /\ op = "parse_coordinates"
    /\ ~HasGsk /\ ~HasDegreeSign
    /\ looks_like_msk(TrimmedText)
    /\ ContainedKeys = {}

\* C6, as claimed: for a text without 'gsk' and without the degree sign that
\* looks_like_msk accepts and that contains no registry key, parse_coordinates
\* raises ParseError with the unknown-system reason.
C6_AsClaimed ==
    MetricTextWithoutKey => RaisedParseError /\ InReason("UnknownMskSystem")

\* C6: the same for a text that is no entry of the catalog under SK-42, with
\* a registry that was passed in or that the file gives: parse_coordinates
\* raises ParseError with the unknown-system reason and returns no list.
C6_UnknownSystemFails ==
    (MetricTextWithoutKey /\ ~Sk42Listed /\ RegistryAvailable) =>
        RaisedParseError /\ InReason("UnknownMskSystem")

\* A triple under a name the loaded registry does not hold, with a catalog
\* that lists other texts, and the unknown-system failure.
C6_Witness ==
    /\ MetricTextWithoutKey /\ ~Sk42Listed /\ RegistryAvailable
    /\ objects_info.exists
    /\ Registry # <<>>
    /\ \E i \in 1..Len(coord_str) : coord_str[i].t = "name"
    /\ RaisedParseError /\ outcome.reason = <<"UnknownMskSystem">>

\* C7: parse_coordinates calls parse_msk_coordinates only when exactly one
\* key of the registry is contained in the text, and with that key's
\* transformer.
C7_ExactlyOneName ==
    (op = "parse_coordinates" /\ Called("parse_msk_coordinates")) =>
        /\ Cardinality(ContainedKeys) = 1
        /\ \A i \in 1..Len(calls) :
              calls[i].f = "parse_msk_coordinates" => calls[i].arg \in ContainedKeys

\* C8: for a text with 'gsk' that is no entry of the catalog under SK-42,
\* parse_coordinates neither loads the registry nor calls
\* parse_msk_coordinates nor raises the unknown-system failure; it gives what
\* parse_dms_coordinates gives (or the anomaly failure for its points), and the
\* empty list when the text has no degree sign.
C8_GskPrefersDms ==
    (op = "parse_coordinates" /\ HasGsk /\ ~Sk42Listed) =>
        /\ ~Called("get_transformers") /\ ~Called("parse_msk_coordinates")
        /\ ~InReason("UnknownMskSystem") /\ ~InReason("ProjLoadFailed")
        /\ IF HasDegreeSign
           THEN LET dms == parse_dms_coordinates(TrimmedText)
                IN  \/ outcome = dms
                    \/ /\ dms.kind = "return" /\ Len(dms.points) >= 3
                       /\ outcome = ParseError(<<"Anomalous">>)
           ELSE outcome = Returned(<<>>)

\* A text with 'gsk', a registered name, angles and a triple with ' m.', and
\* the points of the angles.
C8_Witness ==
    /\ op = "parse_coordinates" /\ HasGsk /\ ~Sk42Listed
    /\ ContainedKeys # {}
    /\ \E i \in 1..Len(coord_str) : coord_str[i].t = "msk" /\ coord_str[i].gap
    /\ outcome.kind = "return" /\ outcome.points # <<>>

\* C9: a text that is an entry of the catalog under SK-42 is parsed by
\* parse_dms_coordinates right after the catalog check and its points, when
\* there are any, go through the SK-42 transform; a text that is no entry of the
\* catalog never goes through that transform.
C9_CatalogFirst ==
    (op = "parse_coordinates" /\ TrimmedText # <<>>) =>
        /\ Sk42Listed =>
              /\ Len(calls) >= 2
              /\ calls[1].f = "_detect_system_key_for_string"
              /\ calls[2].f = "parse_dms_coordinates"
              /\ LET dms == parse_dms_coordinates(TrimmedText)
                 IN  (dms.kind = "return" /\ dms.points # <<>>) =>
                        Len(calls) >= 3 /\ calls[3].f = "transform_points_sk42_to_wgs84"
        /\ ~Listed => ~Called("transform_points_sk42_to_wgs84")

\* The points the branch the call took had before the anomaly check.
BranchPoints ==
    LET dms == parse_dms_coordinates(TrimmedText)
    IN  IF Called("transform_points_sk42_to_wgs84")
        THEN transform_points_sk42_to_wgs84(dms.points)
        ELSE IF Called("parse_dms_coordinates") THEN dms
        ELSE IF Called("parse_msk_coordinates")
        THEN LET key == (CHOOSE i \in 1..Len(calls) : calls[i].f = "parse_msk_coordinates")
                 hit == SelectSeq(Registry, LAMBDA e : e.key = calls[key].arg)
             IN  parse_msk_coordinates(TrimmedText, hit[1].proj)
        ELSE Returned(<<>>)

Anomalous(points) ==
    detect_coordinate_anomalies(points, config.anomaly_threshold_km).is_anomalous

\* C10: parse_coordinates returns no list of 3 or more points that
\* detect_coordinate_anomalies, with the threshold of the config, reports as
\* anomalous; when the points of the branch it took are such a list, it raises
\* ParseError with the detector's reason.
C10_NoAnomalousList ==
    op = "parse_coordinates" =>
        /\ (outcome.kind = "return" /\ Len(outcome.points) >= 3) =>
              ~Anomalous(outcome.points)
        /\ ( /\ BranchPoints.kind = "return"
             /\ Len(BranchPoints.points) >= 3
             /\ Anomalous(BranchPoints.points) )
           => outcome = ParseError(<<"Anomalous">>)

\* Three points out of the SK-42 transform, far apart, and the anomaly
\* failure.
C10_Witness ==
    /\ op = "parse_coordinates"
    /\ Called("transform_points_sk42_to_wgs84")
    /\ Len(BranchPoints.points) = 3
    /\ outcome = ParseError(<<"Anomalous">>)

-----------------------------------------------------------------------------
(* detect_coordinate_anomalies called on its own, on lists of the points   *)
(* the metric-grid triples of the model give under zone 1: two 21 m apart   *)
(* and one 5 835 km away.                                                   *)

MaxPoints == 4      \* points in a list handed to detect_coordinate_anomalies

PNear == Point(1, 50062209, 53142413)
PNear2 == Point(2, 50062373, 53142575)
PFar == Point(3, 131885278, 43113889)

\* threshold_km: the default, one below the long distance, one above it, and
\* 0, the mean distance of a list of equal points.
Thresholds == {DefaultThresholdKm, 5000, 6000, 0}

InitDetect ==
    /\ det_coordinates \in SeqsUpTo({PNear, PNear2, PFar}, MaxPoints)
    /\ det_threshold_km \in Thresholds
    /\ det_result = NotDetected
    /\ coord_str = <<>>
    /\ transformers = None
    /\ proj4_file = [status |-> "ok", names |-> <<Zona1>>]
    /\ objects_info = [exists |-> FALSE, systems |-> <<>>]
    /\ config = [anomaly_threshold_km |-> DefaultThresholdKm]
    /\ op = "none"
    /\ outcome = Returned(<<>>)
    /\ calls = <<>>
    /\ disk = NoDisk
    /\ cache = {}
    /\ opens = <<>>
    /\ history = <<>>
    /\ threads = <<>>
    /\ PipelineIdle
    /\ SessionIdle

DetectCoordinateAnomalies ==
    /\ op = "none"
    /\ det_result' = detect_coordinate_anomalies(det_coordinates, det_threshold_km)
    /\ op' = "detect_coordinate_anomalies"
    /\ UNCHANGED <<coord_str, transformers, proj4_file, objects_info, config, outcome, calls,
                   det_coordinates, det_threshold_km, process_vars, thread_vars,
                   pipeline_vars, session_vars>>

SpecDetect == InitDetect /\ [][DetectCoordinateAnomalies]_vars

\* Every two points of the list are less than threshold_km apart.
AllPairsBelow ==
    \A i, j \in 1..Len(det_coordinates) :
        i # j =>
            haversine_distance(det_coordinates[i].lat, det_coordinates[i].lon,
                               det_coordinates[j].lat, det_coordinates[j].lon)
                < det_threshold_km * 1000

\* C11: detect_coordinate_anomalies returns (False, None, []) for a list of
\* fewer than 3 points, and for a list of 3 or more points every two of which
\* are less than threshold_km apart.
C11_QuietOnSmallAndTight ==
    (op = "detect_coordinate_anomalies" /\ (Len(det_coordinates) < 3 \/ AllPairsBelow)) =>
        det_result = NotDetected

\* Three points, not all the same and all less than 20 km apart, and the
\* detector stayed quiet.
C11_Witness ==
    /\ op = "detect_coordinate_anomalies"
    /\ Len(det_coordinates) = 3
    /\ det_coordinates[1] # det_coordinates[2]
    /\ det_threshold_km = DefaultThresholdKm
    /\ AllPairsBelow
    /\ det_result = NotDetected

\* The value is a str of white space only, the empty str included.
BlankText == \A i \in 1..Len(coord_str) : coord_str[i] \in {SP, NL}

NotAString == coord_str # <<>> /\ coord_str[1].t = "obj"

\* C12: for a coord_str that is None or another value that is no str, or a
\* str that is empty or of white space only, parse_coordinates returns the
\* empty list and raises nothing.
C12_NothingFromNothing ==
    (op = "parse_coordinates" /\ (NotAString \/ BlankText)) => outcome = Returned(<<>>)

\* The number 42 was handed in, with a catalog present, and the empty list
\* came back.
C12_Witness ==
    /\ op = "parse_coordinates"
    /\ coord_str = <<Obj("int", TRUE)>>
    /\ objects_info.exists
    /\ outcome = Returned(<<>>)

\* A triple whose literals are numbers, not both 0.
NonZeroTriple(sym) ==
    /\ sym.t = "msk"
    /\ ~FloatFails(sym.x) /\ ~FloatFails(sym.y)
    /\ Float(sym.x) # 0 \/ Float(sym.y) # 0

\* C13: parse_coordinates returns the empty list only for a text without a
\* pair of angles that is not 0, 0 and without a metric-grid triple that is
\* not 0, 0: with such a pair or triple in the text the call returns points or
\* raises ParseError.
C13_EmptyOnlyWithoutData ==
    ( /\ op = "parse_coordinates"
      /\ KeptPairs # <<>> \/ \E i \in 1..Len(coord_str) : NonZeroTriple(coord_str[i]) )
    => \/ RaisedParseError
       \/ outcome.kind = "return" /\ outcome.points # <<>>

-----------------------------------------------------------------------------
(* A process that calls get_transformers and parse_coordinates repeatedly *)

MaxCalls == 3       \* calls the process makes

\* What a path of the process may hold.
ProcessFiles ==
    {   [status |-> "missing", names |-> <<>>],
        [status |-> "ok", names |-> <<Zona1>>],
        [status |-> "ok", names |-> <<Zona2>>] }

\* get_transformers(), get_transformers("data/proj4.json") and
\* get_transformers("other/proj4.json")
ArgForms == {<<>>, <<DefaultPath>>, <<OtherPath>>}

\* A metric-grid text that names zone 1, and a pair of angles.
ProcessTexts == {<<Name(Zona1), SP, TNear>>, <<A55, SP, A55>>}

NoCatalog == [exists |-> FALSE, systems |-> <<>>]

InitProcess ==
    /\ disk \in [Paths -> ProcessFiles]
    /\ cache = {}
    /\ opens = <<>>
    /\ history = <<>>
    /\ threads = <<>>
    /\ PipelineIdle
    /\ SessionIdle
    /\ coord_str = <<>>
    /\ transformers = None
    /\ proj4_file = [status |-> "ok", names |-> <<Zona1>>]
    /\ objects_info = NoCatalog
    /\ config = [anomaly_threshold_km |-> DefaultThresholdKm]
    /\ op = "process"
    /\ outcome = Returned(<<>>)
    /\ calls = <<>>
    /\ det_coordinates = <<>>
    /\ det_threshold_km = DefaultThresholdKm
    /\ det_result = NotDetected

\* The process calls get_transformers, without an argument or with a path.
CallGetTransformers ==
    /\ op = "process"
    /\ Len(history) < MaxCalls
    /\ \E args \in ArgForms :
         \E got \in {cached_get_transformers(args, disk, cache, opens)} :
             /\ cache' = got.cache
             /\ opens' = got.opens
             /\ history' = Append(history,
                    [f |-> "get_transformers", str |-> <<>>, path |-> PathOf(args),
                     outcome |-> Returned(<<>>), called |-> TRUE,
                     ok |-> got.kind = "return", id |-> got.id, opened |-> got.opened])
    /\ UNCHANGED <<coord_str, transformers, proj4_file, objects_info, config, op, outcome,
                   calls, detect_vars, disk,
                   thread_vars, pipeline_vars, session_vars>>

\* The process calls parse_coordinates without transformers.
CallParseCoordinates ==
    /\ op = "process"
    /\ Len(history) < MaxCalls
    /\ \E str \in ProcessTexts, path \in Paths :
         \E got \in {process_parse_coordinates(str, path, objects_info, config,
                                               disk, cache, opens)} :
             /\ cache' = got.cache
             /\ opens' = got.opens
             /\ history' = Append(history,
                    [f |-> "parse_coordinates", str |-> str, path |-> path,
                     outcome |-> got.outcome, called |-> got.called,
                     ok |-> got.ok, id |-> got.id, opened |-> got.opened])
    /\ UNCHANGED <<coord_str, transformers, proj4_file, objects_info, config, op, outcome,
                   calls, detect_vars, disk,
                   thread_vars, pipeline_vars, session_vars>>

SpecProcess == InitProcess /\ [][CallGetTransformers \/ CallParseCoordinates]_vars

\* Call i of the process was parse_coordinates.
IsParse(i) == history[i].f = "parse_coordinates"

\* C14: two calls of parse_coordinates with the same text, the same registry
\* file and the same Config have the same outcome, whatever the process
\* called between them.
C14_SameCallSameOutcome ==
    \A i, j \in 1..Len(history) :
        ( /\ IsParse(i) /\ IsParse(j)
          /\ history[i].str = history[j].str
          /\ history[i].path = history[j].path )
        => history[i].outcome = history[j].outcome

\* The metric-grid text was parsed against the default path, then against
\* the other path, whose registry gave another outcome, then against the
\* default path again, and both calls for the default path gave one point.
C14_Witness ==
    /\ Len(history) = 3
    /\ \A i \in 1..3 : IsParse(i) /\ history[i].str = <<Name(Zona1), SP, TNear>>
    /\ history[1].path = DefaultPath
    /\ history[2].path = OtherPath
    /\ history[3].path = DefaultPath
    /\ history[2].outcome # history[1].outcome
    /\ history[1].outcome.kind = "return" /\ Len(history[1].outcome.points) = 1
    /\ history[3].outcome = history[1].outcome

\* C16: after a call of get_transformers for a path has returned, every later
\* call for the same path, made with the path as argument or with the default
\* argument, directly or from parse_coordinates, returns the same dict and
\* does not open the file again.
C16_LoadedOncePerPath ==
    \A i, j \in 1..Len(history) :
        ( /\ i < j
          /\ history[i].called /\ history[j].called
          /\ history[i].path = history[j].path
          /\ history[i].ok )
        => /\ history[j].ok
           /\ history[j].id = history[i].id
           /\ ~history[j].opened

-----------------------------------------------------------------------------
(* get_transformers over registry files of several names *)

MaxNames == 3       \* names in a registry file

RegistryNames == {Zona1, Zona2, Zona10, Bare63, Zona99}

\* The keys of a JSON object after json.load: no name twice, any order.
RegistryFiles ==
    {[status |-> "missing", names |-> <<>>], [status |-> "malformed", names |-> <<>>]}
    \cup {[status |-> "ok", names |-> q] :
             q \in {r \in SeqsUpTo(RegistryNames, MaxNames) :
                      \A i, j \in 1..Len(r) : i # j => r[i] # r[j]}}

InitRegistry ==
    /\ proj4_file \in RegistryFiles
    /\ transformers = None
    /\ coord_str = <<>>
    /\ objects_info = NoCatalog
    /\ config = [anomaly_threshold_km |-> DefaultThresholdKm]
    /\ op = "none"
    /\ outcome = Returned(<<>>)
    /\ calls = <<>>
    /\ det_coordinates = <<>>
    /\ det_threshold_km = DefaultThresholdKm
    /\ det_result = NotDetected
    /\ disk = NoDisk
    /\ cache = {}
    /\ opens = <<>>
    /\ history = <<>>
    /\ threads = <<>>
    /\ PipelineIdle
    /\ SessionIdle

\* get_transformers(proj4_path) reads the file; what it returns is kept in
\* transformers, what it raises in outcome.
GetTransformers ==
    /\ op = "none"
    /\ LET loaded == get_transformers(proj4_file)
       IN  IF loaded.kind = "raise"
           THEN transformers' = None /\ outcome' = Raised(loaded.exc, <<>>)
           ELSE /\ transformers' = [given |-> TRUE, map |-> loaded.transformers]
                /\ outcome' = outcome
    /\ op' = "get_transformers"
    /\ UNCHANGED <<coord_str, proj4_file, objects_info, config, calls, detect_vars,
                   process_vars, thread_vars,
                   pipeline_vars, session_vars>>

SpecRegistry == InitRegistry /\ [][GetTransformers]_vars

\* The configured names: the keys of the file.
Configured == {proj4_file.names[i] : i \in 1..Len(proj4_file.names)}

\* The configured names that are P followed by ' zona N'.
ZoneVariants(P) ==
    {n \in Configured : Len(n) >= 3 /\ <<n[1]>> = P /\ n[2] = "zona" /\ n[3] \in Digits}

\* C15: in the map get_transformers returns, a key that is no configured
\* name is the prefix of exactly one configured name, so that a prefix with
\* two or more zone variants has no alias in whatever order the file names
\* them; a configured name keeps its own projection; no key is there twice.
C15_AliasOnlyForSingleZone ==
    (op = "get_transformers" /\ transformers.given) =>
        LET map == transformers.map
        IN  /\ \A k \in 1..Len(map) :
                 /\ map[k].key \notin Configured
                        => Cardinality(ZoneVariants(map[k].key)) = 1
                 /\ map[k].key \in Configured => map[k].proj = map[k].key
            /\ \A k, l \in 1..Len(map) : map[k].key = map[l].key => k = l

\* The file names zone 2 of MSK-63, zone 1 of MSK-99 and zone 1 of MSK-63:
\* the map has the alias MSK-99 and no key MSK-63.
C15_Witness ==
    /\ op = "get_transformers"
    /\ proj4_file.names = <<Zona2, Zona99, Zona1>>
    /\ transformers.given
    /\ \E k \in 1..Len(transformers.map) :
          transformers.map[k] = [key |-> <<"MSK-99">>, proj |-> Zona99]
    /\ \A k \in 1..Len(transformers.map) : transformers.map[k].key # Bare63

-----------------------------------------------------------------------------
(* Threads of one process that call get_transformers at the same time *)

MaxThreads == 2     \* threads of the process

\* A thread that has not called yet.
IdleThread ==
    [pc |-> "start", args |-> <<>>, kind |-> "", id |-> 0, map |-> <<>>, opened |-> FALSE]

InitThreads ==
    /\ disk \in [Paths -> ProcessFiles]
    /\ cache = {}
    /\ opens = <<>>
    /\ history = <<>>
    /\ threads = [t \in 1..MaxThreads |-> IdleThread]
    /\ PipelineIdle
    /\ SessionIdle
    /\ coord_str = <<>>
    /\ transformers = None
    /\ proj4_file = [status |-> "ok", names |-> <<Zona1>>]
    /\ objects_info = NoCatalog
    /\ config = [anomaly_threshold_km |-> DefaultThresholdKm]
    /\ op = "threads"
    /\ outcome = Returned(<<>>)
    /\ calls = <<>>
    /\ det_coordinates = <<>>
    /\ det_threshold_km = DefaultThresholdKm
    /\ det_result = NotDetected

\* The lru_cache wrapper looks the key of the call up: a hit returns the
\* stored dict, a miss goes on to call the wrapped function.
ThreadLookup(t) ==
    /\ threads[t].pc = "start"
    /\ \E args \in ArgForms :
         LET hit == {e \in cache : e.key = make_key(args)}
         IN  IF hit # {}
             THEN LET e == CHOOSE x \in hit : TRUE
                  IN  threads' = [threads EXCEPT ![t] =
                          [pc |-> "done", args |-> args, kind |-> "return", id |-> e.id,
                           map |-> e.map, opened |-> FALSE]]
             ELSE threads' = [threads EXCEPT ![t].pc = "call", ![t].args = args]
    /\ UNCHANGED <<coord_str, transformers, proj4_file, objects_info, config, op, outcome,
                   calls, detect_vars, process_vars, pipeline_vars, session_vars>>

\* The wrapped get_transformers opens the file and builds the dict; what it
\* raises leaves the wrapper at once, and nothing is stored.
ThreadCall(t) ==
    /\ threads[t].pc = "call"
    /\ LET loaded == get_transformers(disk[PathOf(threads[t].args)])
       IN  /\ opens' = Append(opens, PathOf(threads[t].args))
           /\ threads' = [threads EXCEPT ![t] =
                  IF loaded.kind = "raise"
                  THEN [@ EXCEPT !.pc = "done", !.kind = "raise", !.opened = TRUE]
                  ELSE [@ EXCEPT !.pc = "store", !.id = Len(opens) + 1,
                                 !.map = loaded.transformers, !.opened = TRUE]]
    /\ UNCHANGED <<coord_str, transformers, proj4_file, objects_info, config, op, outcome,
                   calls, detect_vars, disk, cache, history, pipeline_vars, session_vars>>

\* The wrapper files the dict under the key, over whatever another thread
\* filed there meanwhile, and returns it.
ThreadStore(t) ==
    /\ threads[t].pc = "store"
    /\ cache' = {e \in cache : e.key # make_key(threads[t].args)}
                \cup {[key |-> make_key(threads[t].args), id |-> threads[t].id,
                       map |-> threads[t].map]}
    /\ threads' = [threads EXCEPT ![t].pc = "done", ![t].kind = "return"]
    /\ UNCHANGED <<coord_str, transformers, proj4_file, objects_info, config, op, outcome,
                   calls, detect_vars, disk, opens, history, pipeline_vars, session_vars>>

NextThreads ==
    \E t \in 1..MaxThreads : ThreadLookup(t) \/ ThreadCall(t) \/ ThreadStore(t)

SpecThreads == InitThreads /\ [][NextThreads]_vars

\* C17: of the threads whose calls of get_transformers, made with the same
\* argument, returned, at most one read the file and built a dict, and all
\* of them got the same dict.
C17_OneLoadForAllThreads ==
    \A t, u \in 1..MaxThreads :
        ( /\ t # u
          /\ threads[t].args = threads[u].args
          /\ threads[t].pc = "done" /\ threads[t].kind = "return"
          /\ threads[u].pc = "done" /\ threads[u].kind = "return" )
        => /\ threads[t].id = threads[u].id
           /\ ~(threads[t].opened /\ threads[u].opened)

-----------------------------------------------------------------------------
(* parse_coordinates without a registry *)

\* No transformers were passed and the registry file is missing or
\* malformed.
NoRegistry ==
    /\ op = "parse_coordinates"
    /\ ~transformers.given
    /\ proj4_file.status \in {"missing", "malformed"}

\* The text goes to the metric-grid branch: the catalog lookup returns and
\* does not place it under SK-42, it has neither 'gsk' nor the degree sign, and looks_like_msk
\* accepts it.
DispatchedToMsk ==
    /\ \A i \in 1..Len(coord_str) : coord_str[i].t # "obj"
    /\ TrimmedText # <<>>
    /\ ~EntryStripFails(TrimmedText, objects_info)
    /\ StripUpper(detect_system_key_for_string(TrimmedText, objects_info)) # "SK-42"
    /\ ~HasGsk /\ ~HasDegreeSign
    /\ looks_like_msk(TrimmedText)

\* The same call with a registry file that loads.
WithRegistryPresent ==
    parse_coordinates(coord_str, None, [status |-> "ok", names |-> <<Zona1>>],
                      objects_info, config).outcome

\* C18: without transformers and with a registry file that is missing or
\* malformed, parse_coordinates raises ParseError with the load-failure
\* reason, and nothing else, for a text that goes to the metric-grid branch,
\* and treats every other text as it does when the file loads.
C18_MissingRegistryFailsMetricOnly ==
    NoRegistry =>
        /\ DispatchedToMsk => outcome = ParseError(<<"ProjLoadFailed">>)
        /\ ~DispatchedToMsk => outcome = WithRegistryPresent

\* A triple under the name of zone 1 and no registry file: the load failure.
C18_Witness ==
    /\ NoRegistry /\ DispatchedToMsk
    /\ proj4_file.status = "missing"
    /\ \E i \in 1..Len(coord_str) : coord_str[i] = Name(Zona1)
    /\ \E i \in 1..Len(coord_str) : coord_str[i] = TNear
    /\ outcome = ParseError(<<"ProjLoadFailed">>)

\* C19: whatever parse_coordinates raises is ParseError with a reason that is
\* not empty.
C19_OnlyParseError ==
    (op = "parse_coordinates" /\ outcome.kind = "raise") =>
        outcome.exc = "ParseError" /\ outcome.reason # <<>>

-----------------------------------------------------------------------------
(* pipeline.py: create_kml_from_coordinates *)

MaxRows == 2        \* data rows of a sheet

\* Config.excel_default_data_start_row
MinRow == 6

\* The cell of 'Цель водопользования': empty, a text with the skip term
\* 'Sbros stochnyh', a text with 'Zabor' and no skip term, another text.
GoalNone == "None"
Goals ==
    {GoalNone, "Sbros stochnyh vod", "Zabor vody", "Zabor (izyatie) vody",
     "Rybovodstvo"}

\* any(term in goal_text for term in skip_terms) of line 186: an empty cell
\* is None, and 'term in None' raises TypeError.
SkipTermCheckFails(goal_text) == goal_text = GoalNone

HasSkipTerm(goal_text) ==
    goal_text \in {"Sbros stochnyh vod", "Zabor (izyatie) vody"}

\* A classification that knows discharge only.
get_water_usage_type_discharge_only(goal_text) ==
    IF goal_text = "Sbros stochnyh vod" THEN "DISCHARGE" ELSE "OTHER"

get_water_usage_type(goal_text) ==
    IF goal_text = GoalNone THEN "OTHER"
    ELSE IF goal_text = "Sbros stochnyh vod" THEN "DISCHARGE"
    ELSE IF goal_text \in {"Zabor vody", "Zabor (izyatie) vody"} THEN "INTAKE"
    ELSE "OTHER"

\* The name of a point placemark: main_name and what follows it.
generate_point_name(main_name, water_type, index, point_name) ==
    IF water_type = "DISCHARGE" THEN <<main_name, "sbros", index>>
    ELSE IF water_type = "INTAKE" THEN <<main_name, "zabor", index>>
    ELSE <<main_name, "tochka", point_name>>

\* Lines 150-219: what a row with points adds to the document, or the
\* exception the lines raise.  Every name of the model starts with 'tochka'.
RowGeometry(main_name, goal_text, coords_array) ==
    LET water_type == get_water_usage_type(goal_text)
        n == Len(coords_array)
    IN  IF n > 3 /\ SkipTermCheckFails(goal_text)
        THEN [kind |-> "raise", exc |-> "TypeError", items |-> <<>>]
        ELSE IF n > 3 /\ ~HasSkipTerm(goal_text)
        THEN [kind |-> "return", exc |-> "",
              items |-> <<[geometry |-> "polygon", name |-> <<main_name>>, points |-> n]>>]
        ELSE IF n > 2 /\ water_type = "OTHER"
        THEN [kind |-> "return", exc |-> "",
              items |-> <<[geometry |-> "line", name |-> <<main_name>>, points |-> n]>>]
        ELSE [kind |-> "return", exc |-> "",
              items |-> [i \in 1..n |->
                           [geometry |-> "point",
                            name |-> generate_point_name(main_name, water_type, i,
                                                         coords_array[i].name),
                            points |-> 1]]]

\* A test that lets cells of white space through.
SkippedCell_blank_kept(coords_str) == ~isinstance_str(coords_str)

\* Line 112: the coordinate cell is no str or only white space.
SkippedCell(coords_str) == ~isinstance_str(coords_str) \/ Strip(coords_str) = <<>>

\* A record that keeps each reason once.
RecordReason_once(error_reasons, error_reason) ==
    IF \E i \in 1..Len(error_reasons) : error_reasons[i] = error_reason
    THEN error_reasons
    ELSE Append(error_reasons, error_reason)

\* Line 131: stats.error_reasons.append(error_reason).
RecordReason(error_reasons, error_reason) == Append(error_reasons, error_reason)

SheetRow(coords_str, main_name, goal_text) ==
    [coords |-> coords_str, name |-> main_name, goal |-> goal_text]

\* Rows: a blank cell, a number, no coordinates, one point, an odd angle,
\* three points, and four points with each kind of purpose.
ThreePairs == Spaced([i \in 1..6 |-> A55])
FourPairs == Spaced([i \in 1..8 |-> A55])
RowKinds ==
    {   SheetRow(<<SP>>, 1, "Rybovodstvo"),
        SheetRow(<<Obj("int", TRUE)>>, 2, GoalNone),
        SheetRow(Other, 3, "Zabor vody"),
        SheetRow(<<A55, SP, A55>>, 4, GoalNone),
        SheetRow(<<A55>>, 5, "Rybovodstvo"),
        SheetRow(ThreePairs, 6, "Rybovodstvo"),
        SheetRow(FourPairs, 7, "Rybovodstvo"),
        SheetRow(FourPairs, 8, "Sbros stochnyh vod"),
        SheetRow(FourPairs, 9, GoalNone),
        SheetRow(ThreePairs, 10, "Zabor vody"),
        SheetRow(FourPairs, 11, "Zabor (izyatie) vody") }

InitPipeline ==
    /\ sheet \in SeqsUpTo(RowKinds, MaxRows)
    /\ row_idx = 0
    /\ stats = ConversionResult
    /\ anomalies_list = <<>>
    /\ kml = <<>>
    /\ pc = "rows"
    /\ raised = ""
    /\ coord_str = <<>>
    /\ transformers = None
    /\ proj4_file = [status |-> "ok", names |-> <<Zona1>>]
    /\ objects_info = NoCatalog
    /\ config = [anomaly_threshold_km |-> DefaultThresholdKm]
    /\ op = "create_kml_from_coordinates"
    /\ outcome = Returned(<<>>)
    /\ calls = <<>>
    /\ det_coordinates = <<>>
    /\ det_threshold_km = DefaultThresholdKm
    /\ det_result = NotDetected
    /\ disk = NoDisk
    /\ cache = {}
    /\ opens = <<>>
    /\ history = <<>>
    /\ threads = <<>>
    /\ SessionIdle

\* One turn of the loop of lines 110-219, for the next row of the sheet.
ProcessRow ==
    /\ pc = "rows"
    /\ row_idx < Len(sheet)
    /\ row_idx' = row_idx + 1
    /\ \E row \in {sheet[row_idx + 1]} :
       \E parsed \in {parse_coordinates(row.coords, transformers, proj4_file,
                                         objects_info, config).outcome} :
       \E drawn \in {RowGeometry(row.name, row.goal, parsed.points)} :
       \E counted \in {[stats EXCEPT !.total_rows = @ + 1]} :
           IF SkippedCell(row.coords)
           THEN UNCHANGED <<stats, anomalies_list, kml, pc, raised>>
           ELSE IF parsed.kind = "raise" /\ parsed.exc = "ParseError"
           THEN /\ stats' = [counted EXCEPT !.failed_rows = @ + 1,
                                            !.error_reasons =
                                                RecordReason(@, parsed.reason)]
                /\ anomalies_list' = Append(anomalies_list,
                       [row_index |-> MinRow + row_idx, main_name |-> row.name,
                        reason |-> parsed.reason, coords_str |-> row.coords])
                /\ UNCHANGED <<kml, pc, raised>>
           ELSE IF parsed.kind = "raise"
           THEN /\ stats' = counted
                /\ pc' = "raised" /\ raised' = parsed.exc
                /\ UNCHANGED <<anomalies_list, kml>>
           ELSE IF parsed.points = <<>>
           THEN /\ stats' = [counted EXCEPT !.successful_rows = @ + 1]
                /\ UNCHANGED <<anomalies_list, kml, pc, raised>>
           ELSE /\ stats' = [counted EXCEPT !.successful_rows = @ + 1]
                /\ IF drawn.kind = "raise"
                   THEN pc' = "raised" /\ raised' = drawn.exc /\ kml' = kml
                   ELSE kml' = kml \o drawn.items /\ UNCHANGED <<pc, raised>>
                /\ UNCHANGED anomalies_list
    /\ UNCHANGED <<coord_str, transformers, proj4_file, objects_info, config, op, outcome,
                   calls, detect_vars, process_vars, thread_vars, sheet, session_vars>>

\* Lines 221-235: the document is saved, the anomaly report written (which
\* may fail) and the ConversionResult returned.
ReturnStats ==
    /\ pc = "rows"
    /\ row_idx = Len(sheet)
    /\ \E saved \in BOOLEAN :
          stats' = IF anomalies_list = <<>> THEN stats
                   ELSE [stats EXCEPT !.anomaly_file_created = saved,
                                      !.anomaly_rows = Len(anomalies_list)]
    /\ pc' = "returned"
    /\ UNCHANGED <<coord_str, transformers, proj4_file, objects_info, config, op, outcome,
                   calls, detect_vars, process_vars, thread_vars, sheet, row_idx,
                   anomalies_list, kml, raised, session_vars>>

SpecPipeline == InitPipeline /\ [][ProcessRow \/ ReturnStats]_vars

\* The rows of the sheet whose coordinate cell holds text, and those of them
\* that parse_coordinates fails on.
TextRows == {k \in 1..Len(sheet) : ~SkippedCell(sheet[k].coords)}
FailingRows ==
    {k \in TextRows :
        parse_coordinates(sheet[k].coords, transformers, proj4_file,
                          objects_info, config).outcome.kind = "raise"}

\* C20: create_kml_from_coordinates is left by no exception, and when it
\* returns it has been through every row: each row with text was counted,
\* each row that failed is one entry of the anomaly report, and the counters
\* of the ConversionResult say so.
C20_EveryRowReached ==
    /\ pc # "raised"
    /\ pc = "returned" =>
          /\ row_idx = Len(sheet)
          /\ stats.total_rows = Cardinality(TextRows)
          /\ stats.failed_rows = Cardinality(FailingRows)
          /\ Len(anomalies_list) = Cardinality(FailingRows)
          /\ \A k \in FailingRows :
                \E i \in 1..Len(anomalies_list) :
                    anomalies_list[i].row_index = MinRow + k - 1
          /\ stats.anomaly_rows = Len(anomalies_list)

\* What parse_coordinates gives for row k of the sheet.
RowOutcome(k) ==
    parse_coordinates(sheet[k].coords, transformers, proj4_file, objects_info,
                      config).outcome

\* Of the rows the loop has been through: those without text in the
\* coordinate cell, those parse_coordinates failed on with ParseError, those
\* it gave the empty list for, and those it gave points for.
DoneRows == 1..row_idx
DoneBlank ==
    {k \in DoneRows :
        \/ \E i \in 1..Len(sheet[k].coords) : sheet[k].coords[i].t = "obj"
        \/ \A i \in 1..Len(sheet[k].coords) : sheet[k].coords[i] \in {SP, NL}}
DoneFailed ==
    {k \in DoneRows \ DoneBlank :
        RowOutcome(k).kind = "raise" /\ RowOutcome(k).exc = "ParseError"}
DoneEmpty == {k \in DoneRows \ DoneBlank : RowOutcome(k) = Returned(<<>>)}
DonePoints ==
    {k \in DoneRows \ DoneBlank :
        RowOutcome(k).kind = "return" /\ RowOutcome(k).points # <<>>}

\* C21: after every row total_rows = successful_rows + failed_rows; each row
\* that failed with ParseError is one of failed_rows and one entry of the
\* anomaly collection and has no geometry; each row that gave the empty list
\* is one of successful_rows and has no geometry; a row with a blank or
\* non-text cell is in no counter.
C21_CountersFollowRows ==
    /\ stats.total_rows = stats.successful_rows + stats.failed_rows
    /\ stats.total_rows = Cardinality(DoneRows \ DoneBlank)
    /\ stats.failed_rows = Cardinality(DoneFailed)
    /\ stats.successful_rows = Cardinality(DoneEmpty) + Cardinality(DonePoints)
    /\ Len(anomalies_list) = Cardinality(DoneFailed)
    /\ \A k \in DoneFailed :
          Cardinality({i \in 1..Len(anomalies_list) :
                          anomalies_list[i].row_index = MinRow + k - 1}) = 1
    /\ \A k \in DoneFailed \cup DoneEmpty \cup DoneBlank :
          \A i \in 1..Len(kml) : kml[i].name[1] # sheet[k].name

\* A sheet of a row with an odd angle and a row without coordinates, both
\* done: one failed, one successful, no geometry.
C21_Witness ==
    /\ row_idx = 2
    /\ Cardinality(DoneFailed) = 1 /\ Cardinality(DoneEmpty) = 1
    /\ stats.total_rows = 2 /\ stats.failed_rows = 1 /\ stats.successful_rows = 1
    /\ Len(anomalies_list) = 1
    /\ kml = <<>>

\* The row the loop is at, and whether parse_coordinates gives points for it.
AtRow == row_idx + 1
AtPointsRow ==
    /\ pc = "rows" /\ row_idx < Len(sheet)
    /\ ~SkippedCell(sheet[AtRow].coords)
    /\ RowOutcome(AtRow).kind = "return"
    /\ RowOutcome(AtRow).points # <<>>

\* What the step at the row adds to the document.
Emitted == SubSeq(kml', Len(kml) + 1, Len(kml'))
EmitsOnly(kind, count) ==
    /\ Len(kml') = Len(kml) + count
    /\ SubSeq(kml', 1, Len(kml)) = kml
    /\ \A i \in 1..count : Emitted[i].geometry = kind

\* The kind by the words of the claim: a line for every row that is no
\* discharge row.
StatedKind(goal_text, n) ==
    IF n > 3 /\ ~HasSkipTerm(goal_text) THEN "polygon"
    ELSE IF n > 2 /\ get_water_usage_type(goal_text) # "DISCHARGE" THEN "line"
    ELSE "point"

DischargeOrIntake ==
    {"Sbros stochnyh vod", "Zabor vody", "Zabor (izyatie) vody"}
BranchKind(goal_text, n) ==
    IF n > 3 /\ ~HasSkipTerm(goal_text) THEN "polygon"
    ELSE IF n > 2 /\ goal_text \notin DischargeOrIntake THEN "line"
    ELSE "point"

C23_NoReasonTwice ==
    \A i, j \in 1..Len(stats.error_reasons) :
        stats.error_reasons[i] = stats.error_reasons[j] => i = j

\* C23 amended: error_reasons holds one entry per failed row, in row order:
\* it is as long as failed_rows and its i-th entry is the reason of the i-th
\* entry of the anomaly collection, equal reasons of two rows included.
C23_OneReasonPerFailedRow ==
    /\ Len(stats.error_reasons) = stats.failed_rows
    /\ Len(stats.error_reasons) = Len(anomalies_list)
    /\ \A i \in 1..Len(anomalies_list) :
          stats.error_reasons[i] = anomalies_list[i].reason

\* Two rows with the same odd angle are done: the reason is there twice.
C23_Witness ==
    /\ row_idx = 2
    /\ sheet[1] = sheet[2]
    /\ stats.failed_rows = 2
    /\ Len(stats.error_reasons) = 2
    /\ stats.error_reasons[1] = stats.error_reasons[2]

\* The pairs of a numbered text by the part they stand in: for the k-th pair
\* of the text the index of its part and its position among the pairs of
\* that part, both counted from 0.
PairsOfPart(part) == Len(DmsCoordFindall(part)) \div 2
RECURSIVE PairPlacesFrom(_, _)
PairPlacesFrom(parts, idx) ==
    IF idx >= Len(parts) THEN <<>>
    ELSE [m \in 1..PairsOfPart(parts[idx + 1]) |-> [part_index |-> idx, position |-> m - 1]]
         \o PairPlacesFrom(parts, idx + 1)

\* The name by the words of the claim: the index that stands at the pair's
\* position in its own part, else the label of the part, else the number of
\* the pair in the text.
StatedPointName(parts, places, k) ==
    LET part == parts[places[k].part_index + 1]
        numbers == DmsPointFindall(part)
    IN  IF places[k].position < Len(numbers) THEN numbers[places[k].position + 1]
        ELSE IF AltPointSearch(part) # 0 THEN AltPointSearch(part)
        ELSE k

\* C24: parse_dms_coordinates names each pair after the index marker at the
\* pair's position within its own ';' part, else after the 'tochka N' label
\* of the part, else 'tochka {pair_index+1}'.
C24_NamedWithinOwnPart ==
    (op = "parse_dms_coordinates" /\ coord_str \in NumberedDmsTexts) =>
        LET parts == Parts(coord_str)
            places == PairPlacesFrom(parts, 0)
        IN  /\ outcome.kind = "return"
            /\ Len(outcome.points) = Len(places)
            /\ \A k \in 1..Len(places) :
                  outcome.points[k].name = StatedPointName(parts, places, k)

\* A matched triple whose numbers float() refuses, one that is the
\* placeholder 0, 0, and one the projection puts outside WGS84.
Unparsable(triple) == FloatFails(triple[2]) \/ FloatFails(triple[3])
Placeholder(triple) ==
    ~Unparsable(triple) /\ Float(triple[2]) = 0 /\ Float(triple[3]) = 0
Untransformable(triple, proj) ==
    /\ ~Unparsable(triple) /\ ~Placeholder(triple)
    /\ LET t == transform(proj, Float(triple[3]), Float(triple[2]))
       IN  ~(-90 * 3600000 <= t.lat /\ t.lat <= 90 * 3600000
             /\ -180 * 3600000 <= t.lon /\ t.lon <= 180 * 3600000)

\* The points the claim promises for the triples of a text under a
\* projection.
PromisedMskOutcome(proj) ==
    LET triples == MskCoordFindall(coord_str)
        kept == SelectSeq(triples, LAMBDA triple : ~Placeholder(triple))
    IN  IF \E k \in 1..Len(triples) :
              Unparsable(triples[k]) \/ Untransformable(triples[k], proj)
        THEN outcome.kind = "raise" /\ outcome.exc = "ParseError"
        ELSE /\ outcome.kind = "return"
             /\ Len(outcome.points) = Len(kept)
             /\ \A k \in 1..Len(kept) :
                   LET t == transform(proj, Float(kept[k][3]), Float(kept[k][2]))
                   IN  outcome.points[k] = Point(kept[k][1], Round6(t.lon), Round6(t.lat))

\* C25: parse_msk_coordinates returns one Point per matched non-zero
\* triple, in match order, named after the index written in the text; a
\* placeholder 0, 0 is left out without renumbering; a triple that cannot be
\* parsed or transformed fails the whole text with ParseError.
C25_TriplesKeepTheirIndex ==
    op = "parse_msk_coordinates" =>
        \E k \in 1..Len(get_transformers(proj4_file).transformers) :
            PromisedMskOutcome(get_transformers(proj4_file).transformers[k].proj)

\* The text  4: 0 m., 0.0 m.  2: 381650.0 m., 1368960.0 m.  gave the one
\* point 'tochka 2'.
C25_Witness ==
    /\ op = "parse_msk_coordinates"
    /\ MskCoordFindall(coord_str) = <<<<4, "0", "0.0">>, <<2, "381650.0", "1368960.0">>>>
    /\ outcome.kind = "return"
    /\ Len(outcome.points) = 1
    /\ outcome.points[1].name = 2

\* The sum of the distances from point i to the points j, j-1, ..., 1 other
\* than i, in metres.
RECURSIVE DistanceSum(_, _)
DistanceSum(i, j) ==
    IF j = 0 THEN 0
    ELSE DistanceSum(i, j - 1)
         + (IF j = i THEN 0
            ELSE haversine_distance(det_coordinates[i].lat, det_coordinates[i].lon,
                                    det_coordinates[j].lat, det_coordinates[j].lon))

\* The mean distance of point i to all other points is above threshold_km.
MeanAbove(i) ==
    DistanceSum(i, Len(det_coordinates))
        > det_threshold_km * 1000 * (Len(det_coordinates) - 1)

\* C26: on 3 or more points detect_coordinate_anomalies flags exactly the
\* points whose mean distance to all other points is strictly greater than
\* threshold_km, in increasing index order; is_anomalous is true exactly when
\* the flagged list is not empty, and the reason is set exactly when
\* is_anomalous is true.
C26_FlagsExactlyTheFarPoints ==
    (op = "detect_coordinate_anomalies" /\ Len(det_coordinates) >= 3) =>
        LET flagged == det_result.anomalous_points
        IN  /\ {flagged[k] : k \in 1..Len(flagged)}
                  = {i - 1 : i \in {n \in 1..Len(det_coordinates) : MeanAbove(n)}}
            /\ \A k \in 1..(Len(flagged) - 1) : flagged[k] < flagged[k + 1]
            /\ det_result.is_anomalous <=> flagged # <<>>
            /\ det_result.reason # "" <=> det_result.is_anomalous

\* Of four points the first and the last are 5 835 km from the two in
\* between: with a threshold of 20 km all four are flagged, in order.
C26_Witness ==
    /\ op = "detect_coordinate_anomalies"
    /\ det_coordinates = <<PFar, PNear, PNear2, PFar>>
    /\ det_threshold_km = DefaultThresholdKm
    /\ det_result.is_anomalous
    /\ det_result.anomalous_points = <<0, 1, 2, 3>>
    /\ det_result.reason = "Anomalous"

\* A catalog file that is there and holds the empty dict.
EmptyCatalog == [exists |-> TRUE, systems |-> <<>>]

\* C27: with data/objects_info.json missing or unreadable parse_coordinates
\* raises nothing because of it and gives what it gives with an empty
\* catalog: the text goes by the rules for 'gsk', the metric grid and the
\* angles, never through the SK-42 transform.
C27_MissingCatalogIsEmptyCatalog ==
    (op = "parse_coordinates" /\ ~objects_info.exists) =>
        LET r == parse_coordinates(coord_str, transformers, proj4_file, EmptyCatalog, config)
        IN  /\ outcome = r.outcome
            /\ calls = r.calls
            /\ outcome.kind = "raise" => outcome.exc = "ParseError"
            /\ \A k \in 1..Len(calls) : calls[k].f # "transform_points_sk42_to_wgs84"

\* A pair of angles, which other catalogs of the model list under SK-42,
\* parsed without a catalog file: one point, by the angle rule.
C27_Witness ==
    /\ op = "parse_coordinates"
    /\ ~objects_info.exists
    /\ coord_str = <<A55, SP, A55>>
    /\ outcome.kind = "return" /\ Len(outcome.points) = 1
    /\ \E k \in 1..Len(calls) : calls[k].f = "parse_dms_coordinates"

-----------------------------------------------------------------------------
(* workers.py, processing.py, stats.py: a session that converts the files  *)
(* of the region folders in a pool and sums up their results.  Python's    *)
(* None is <<>> here.                                                      *)

MaxFiles == 2       \* files of a session

\* create_kml_from_coordinates as the worker calls it (workers.py:41-46):
\* the loop of pipeline.py:110-219 over all rows, then lines 221-235.  The
\* document itself is left out; saved tells whether the anomaly report could
\* be written.
RECURSIVE ConvertRows(_, _, _, _)
ConvertRow(rows, given, file, result, parsed) ==
    LET row == rows[1]
        counted == [result EXCEPT !.total_rows = @ + 1]
    IN  IF SkippedCell(row.coords) THEN ConvertRows(Tail(rows), given, file, result)
        ELSE IF parsed.kind = "raise" /\ parsed.exc = "ParseError"
        THEN ConvertRows(Tail(rows), given, file,
                 [counted EXCEPT !.failed_rows = @ + 1,
                                 !.error_reasons = RecordReason(@, parsed.reason)])
        ELSE IF parsed.kind = "raise" THEN [kind |-> "raise", exc |-> parsed.exc, result |-> <<>>]
        ELSE IF parsed.points = <<>>
        THEN ConvertRows(Tail(rows), given, file, [counted EXCEPT !.successful_rows = @ + 1])
        ELSE IF RowGeometry(row.name, row.goal, parsed.points).kind = "raise"
        THEN [kind |-> "raise", exc |-> "TypeError", result |-> <<>>]
        ELSE ConvertRows(Tail(rows), given, file, [counted EXCEPT !.successful_rows = @ + 1])

ConvertRows(rows, given, file, result) ==
    IF rows = <<>> THEN [kind |-> "return", exc |-> "", result |-> result]
    ELSE ConvertRow(rows, given, file, result,
                    parse_coordinates(rows[1].coords, given, file,
                                      [exists |-> FALSE, systems |-> <<>>],
                                      [anomaly_threshold_km |-> DefaultThresholdKm]).outcome)

\* pipeline.py:223-235: with anomalies collected the report is written and
\* the result says so.
ReportAnomalies(run, saved) ==
    IF run.kind = "raise" \/ run.result.failed_rows = 0 THEN run
    ELSE [run EXCEPT !.result.anomaly_rows = run.result.failed_rows,
                     !.result.anomaly_file_created = saved]

create_kml_from_coordinates(rows, filename, given, file, saved) ==
    ReportAnomalies(
        ConvertRows(rows, given, file, ("filename" :> filename) @@ ConversionResult), saved)

\* (success, filename, conversion_result, error_message)
WorkerReturn(success, filename, conversion_result, error_message) ==
    [success |-> success, filename |-> filename, conversion_result |-> conversion_result,
     error_message |-> error_message]

\* workers.py:35-40: the registry handed on, None when the load failed.
LoadedOrNone(loaded) ==
    IF loaded.kind = "raise" THEN None ELSE [given |-> TRUE, map |-> loaded.transformers]

\* workers.py:48-53: the tuple for a conversion that returned or raised.
WorkerOutcome(filename, run) ==
    IF run.kind = "raise"
    THEN WorkerReturn(FALSE, filename, <<>>, <<"Error converting", run.exc>>)
    ELSE WorkerReturn(TRUE, filename, run.result, <<>>)

\* A worker that lets the failure of the registry load out of the inner
\* try.
process_file_worker_strict(xlsx_file, file, saved) ==
    IF ~xlsx_file.book.readable
    THEN WorkerReturn(FALSE, xlsx_file.path[2], <<>>,
                      <<"Error converting", "InvalidFileException">>)
    ELSE IF get_transformers(file).kind = "raise"
    THEN WorkerReturn(FALSE, xlsx_file.path[2], <<>>,
                      <<"Error converting", "FileNotFoundError">>)
    ELSE WorkerOutcome(xlsx_file.path[2],
             create_kml_from_coordinates(xlsx_file.book.rows, xlsx_file.path[2],
                                         LoadedOrNone(get_transformers(file)), file, saved))

\* workers.py:16-53.  xlsx_file is [path, book], the path <<folder, name>>,
\* the book [readable, rows], not readable when load_workbook refuses the
\* file; file is the registry file at the default path.
process_file_worker(xlsx_file, file, saved) ==
    IF ~xlsx_file.book.readable
    THEN WorkerReturn(FALSE, xlsx_file.path[2], <<>>,
                      <<"Error converting", "InvalidFileException">>)
    ELSE WorkerOutcome(xlsx_file.path[2],
             create_kml_from_coordinates(xlsx_file.book.rows, xlsx_file.path[2],
                                         LoadedOrNone(get_transformers(file)), file, saved))

\* stats.py:24-25: self.file_results[result.filename] = result.  The dict is
\* the sequence of its items; a key that is there keeps its place.
add_file_result(file_results, result) ==
    IF \E k \in 1..Len(file_results) : file_results[k].filename = result.filename
    THEN [k \in 1..Len(file_results) |->
             IF file_results[k].filename = result.filename
             THEN [filename |-> result.filename, result |-> result]
             ELSE file_results[k]]
    ELSE Append(file_results, [filename |-> result.filename, result |-> result])

RECURSIVE SumOver(_, _)
\* The sum of a counter over the results of the dict.
SumOver(file_results, counter) ==
    IF file_results = <<>> THEN 0
    ELSE file_results[1].result[counter] + SumOver(Tail(file_results), counter)

\* stats.py:30-45
get_total_stats(file_results) ==
    [total_files |-> Len(file_results),
     total_rows |-> SumOver(file_results, "total_rows"),
     successful_rows |-> SumOver(file_results, "successful_rows"),
     failed_rows |-> SumOver(file_results, "failed_rows"),
     anomaly_rows |-> SumOver(file_results, "anomaly_rows")]

\* stats.py:69-71
RECURSIVE AllErrors(_)
AllErrors(file_results) ==
    IF file_results = <<>> THEN <<>>
    ELSE file_results[1].result.error_reasons \o AllErrors(Tail(file_results))

\* stats.py:81-88: the patterns, each the fragment a reason has to begin
\* with, and the name of its group (the pattern of line 83, 'LMS' for 'DMS',
\* fits no reason of parsing.py).
error_patterns ==
    <<  [pattern |-> "OddDmsCount", group_name |-> "OddDmsCount"],
        [pattern |-> "DmsOutOfRange", group_name |-> "DmsOutOfRange"],
        [pattern |-> "MskOutOfRange", group_name |-> "MskOutOfRange"],
        [pattern |-> "MskTransformError", group_name |-> "MskTransformError"],
        [pattern |-> "Anomalous", group_name |-> "Anomalous"] >>

\* re.match(pattern, error): the pattern fits at the first character.
re_match(pattern, error) == error # <<>> /\ error[1] = pattern

\* Lines 90-99: the key a reason is counted under, the group of the first
\* pattern that fits, else the reason itself, cut after 80 characters: of
\* the reasons without a group only two are longer, the one of an unknown
\* metric system (83 characters) and the one of a failed pair of angles
\* (109 and more).
GroupOf(error) ==
    LET fits == SelectSeq(error_patterns, LAMBDA e : re_match(e.pattern, error))
    IN  IF fits # <<>> THEN <<fits[1].group_name>>
        ELSE IF error[1] \in {"UnknownMskSystem", "DmsPairInternal"}
        THEN <<error[1], "...">>
        ELSE error

\* stats.py:57-118, the four scores left out: "empty" is the dict of line
\* 61, which has no error_analysis; error_analysis is <<>> without errors,
\* else total_errors, unique_types and the Counter as the function from its
\* keys to their counts (fewer than 10 in the model, so that top_errors
\* holds them all).
calculate_quality_score(file_results) ==
    LET all_errors == AllErrors(file_results)
        keys == {GroupOf(all_errors[k]) : k \in 1..Len(all_errors)}
        grouped_errors ==
            [key \in keys |->
                Cardinality({k \in 1..Len(all_errors) : GroupOf(all_errors[k]) = key})]
    IN  IF get_total_stats(file_results).total_rows = 0
        THEN [kind |-> "empty", error_analysis |-> <<>>]
        ELSE IF all_errors = <<>>
        THEN [kind |-> "scored", error_analysis |-> <<>>]
        ELSE [kind |-> "scored",
              error_analysis |-> [total_errors |-> Len(all_errors),
                                  unique_types |-> Cardinality(keys),
                                  top_errors |-> grouped_errors]]

\* The files of a session: of a region of one basin folder, of the region of
\* the same name of another, and of another region (separator.py:318 names
\* every file after its region).
FilePaths == {<<"Volga", "Samara.xlsx">>, <<"Don", "Samara.xlsx">>, <<"Don", "Saratov.xlsx">>}

\* Their sheets: a row of one point; a row with an odd angle; a row with a
\* latitude of 91 degrees and a row with an odd angle; a row with a triple
\* of zone 1; a row of four points with an empty purpose cell; and a file
\* that is no workbook.
Workbook(rows) == [readable |-> TRUE, rows |-> rows]
Books ==
    {   Workbook(<<SheetRow(<<A55, SP, A55>>, 4, GoalNone)>>),
        Workbook(<<SheetRow(<<A55>>, 5, "Rybovodstvo")>>),
        Workbook(<<SheetRow(<<A91, SP, A55>>, 12, "Rybovodstvo"),
                   SheetRow(<<A55>>, 5, "Rybovodstvo")>>),
        Workbook(<<SheetRow(<<Name(Zona1), SP, TNear>>, 13, "Rybovodstvo")>>),
        Workbook(<<SheetRow(FourPairs, 9, GoalNone)>>),
        [readable |-> FALSE, rows |-> <<>>] }

Future(book) == [book |-> book, state |-> "submitted", ret |-> <<>>]

InitSession ==
    /\ \E chosen \in {c \in SUBSET FilePaths : Cardinality(c) <= MaxFiles} :
          futures \in [chosen -> {Future(book) : book \in Books}]
    /\ processing_stats = ProcessingStats
    /\ totals = <<>>
    /\ quality = <<>>
    /\ proj4_file \in {[status |-> "ok", names |-> <<Zona1>>],
                       [status |-> "missing", names |-> <<>>]}
    /\ coord_str = <<>>
    /\ transformers = None
    /\ objects_info = [exists |-> FALSE, systems |-> <<>>]
    /\ config = [anomaly_threshold_km |-> DefaultThresholdKm]
    /\ op = "run_parallel_conversion"
    /\ outcome = Returned(<<>>)
    /\ calls = <<>>
    /\ det_coordinates = <<>>
    /\ det_threshold_km = DefaultThresholdKm
    /\ det_result = NotDetected
    /\ disk = NoDisk
    /\ cache = {}
    /\ opens = <<>>
    /\ history = <<>>
    /\ threads = <<>>
    /\ PipelineIdle

SessionUnchanged ==
    UNCHANGED <<coord_str, transformers, proj4_file, objects_info, config, op, outcome,
                calls, detect_vars, process_vars, thread_vars, pipeline_vars>>

\* A worker process runs process_file_worker on a file and returns.
ProcessFileWorker ==
    /\ \E path \in DOMAIN futures :
          /\ futures[path].state = "submitted"
          /\ \E saved \in BOOLEAN :
             \E returned \in {process_file_worker([path |-> path, book |-> futures[path].book],
                                                  proj4_file, saved)} :
                futures' = [futures EXCEPT ![path].state = "done", ![path].ret = returned]
    /\ UNCHANGED <<processing_stats, totals, quality>>
    /\ SessionUnchanged

\* A worker process dies before it returns: the pool breaks the future.
WorkerLost ==
    /\ \E path \in DOMAIN futures :
          /\ futures[path].state = "submitted"
          /\ futures' = [futures EXCEPT ![path].state = "broken"]
    /\ UNCHANGED <<processing_stats, totals, quality>>
    /\ SessionUnchanged

\* processing.py:161-191: one turn of the loop over as_completed, for any
\* future that is through.
CollectFuture ==
    /\ \E path \in DOMAIN futures :
          /\ futures[path].state \in {"done", "broken"}
          /\ futures' = [futures EXCEPT ![path].state = "collected"]
          /\ \E ret \in {futures[path].ret} :
                processing_stats' =
                    IF futures[path].state = "broken" \/ ~ret.success
                    THEN [processing_stats EXCEPT !.conversion_errors = @ + 1]
                    ELSE IF ret.conversion_result = <<>> THEN processing_stats
                    ELSE [processing_stats EXCEPT
                            !.file_results = add_file_result(@, ret.conversion_result),
                            !.anomaly_files_generated =
                                IF ret.conversion_result.anomaly_file_created
                                THEN @ + 1 ELSE @]
    /\ UNCHANGED <<totals, quality>>
    /\ SessionUnchanged

AllCollected == \A path \in DOMAIN futures : futures[path].state = "collected"

\* ProcessingStats.get_total_stats() after the pool is through.
GetTotalStats ==
    /\ AllCollected
    /\ totals = <<>>
    /\ totals' = get_total_stats(processing_stats.file_results)
    /\ UNCHANGED <<futures, processing_stats, quality>>
    /\ SessionUnchanged

\* ProcessingStats.calculate_quality_score() after the pool is through.
CalculateQualityScore ==
    /\ AllCollected
    /\ quality = <<>>
    /\ quality' = calculate_quality_score(processing_stats.file_results)
    /\ UNCHANGED <<futures, processing_stats, totals>>
    /\ SessionUnchanged

NextSession ==
    ProcessFileWorker \/ WorkerLost \/ CollectFuture \/ GetTotalStats \/ CalculateQualityScore

SpecSession == InitSession /\ [][NextSession]_vars

\* The files whose result add_file_result was called with.
AddedFiles ==
    {path \in DOMAIN futures :
        /\ futures[path].state = "collected"
        /\ futures[path].ret # <<>>
        /\ futures[path].ret.success}

RECURSIVE SumAdded(_, _)
SumAdded(paths, counter) ==
    IF paths = {} THEN 0
    ELSE LET path == CHOOSE x \in paths : TRUE
         IN  futures[path].ret.conversion_result[counter] + SumAdded(paths \ {path}, counter)

\* C28: after add_file_result was called once for each converted file, in
\* any order of completion, get_total_stats returns total_files equal to
\* the number of files added and the sums of total_rows, successful_rows
\* and failed_rows over all of them, files of the same name in different
\* region folders included.
C28_TotalsCoverEveryFile ==
    totals # <<>> =>
        /\ totals.total_files = Cardinality(AddedFiles)
        /\ totals.total_rows = SumAdded(AddedFiles, "total_rows")
        /\ totals.successful_rows = SumAdded(AddedFiles, "successful_rows")
        /\ totals.failed_rows = SumAdded(AddedFiles, "failed_rows")

\* The registry file as it should be.
RegistryThere == [status |-> "ok", names |-> <<Zona1>>]

\* C29: process_file_worker returns (True, filename, result, None) when the
\* conversion completes and (False, filename, None, message) on any
\* exception: exactly one of result and message is set, and the failure of
\* the registry load alone never makes it return False, the return is as
\* successful as with the registry there.
C29_WorkerAlwaysReturns ==
    \A path \in DOMAIN futures :
        futures[path].state \in {"done", "collected"} /\ futures[path].ret # <<>> =>
            LET ret == futures[path].ret
                xlsx_file == [path |-> path, book |-> futures[path].book]
            IN  /\ ret.filename = path[2]
                /\ ret.success \in BOOLEAN
                /\ ret.success => ret.conversion_result # <<>> /\ ret.error_message = <<>>
                /\ ~ret.success => ret.conversion_result = <<>> /\ ret.error_message # <<>>
                /\ ret.success = process_file_worker(xlsx_file, RegistryThere, FALSE).success
                /\ ret.success <=>
                      /\ xlsx_file.book.readable
                      /\ \A k \in 1..Len(xlsx_file.book.rows) :
                            ~(Len(xlsx_file.book.rows[k].coords) > 8
                              /\ xlsx_file.book.rows[k].goal = GoalNone)

\* Without a registry file a worker is through with a sheet of one row
\* with a triple: it returned True and a result with that row failed.
C29_Witness ==
    /\ proj4_file.status = "missing"
    /\ \E path \in DOMAIN futures :
          /\ futures[path].state = "done"
          /\ futures[path].ret.success
          /\ futures[path].ret.error_message = <<>>
          /\ futures[path].ret.conversion_result.failed_rows = 1
          /\ futures[path].ret.conversion_result.error_reasons = <<<<"ProjLoadFailed">>>>

\* How often the reasons the quality score sees hold a fragment, and the
\* count the score has under a key.
ReasonsWith(fragment) ==
    LET all_errors == AllErrors(processing_stats.file_results)
    IN  Cardinality({k \in 1..Len(all_errors) :
                        \E i \in 1..Len(all_errors[k]) : all_errors[k][i] = fragment})
CountedUnder(key) ==
    IF key \in DOMAIN quality.error_analysis.top_errors
    THEN quality.error_analysis.top_errors[key] ELSE 0

\* C30: calculate_quality_score counts every reason of a pair of angles out
\* of range under the group of the angles out of range, and every reason of
\* an odd count under the group of the odd count.
C30_RangeAndOddReasonsGrouped ==
    (quality # <<>> /\ quality.error_analysis # <<>>) =>
        /\ CountedUnder(<<"DmsOutOfRange">>) = ReasonsWith("DmsOutOfRange")
        /\ CountedUnder(<<"OddDmsCount">>) = ReasonsWith("OddDmsCount")

=============================================================================
